---- MODULE Spec2Model ----
(***************************************************************************)
(* A model of the rustracer render driver (src/src/renderer.rs,            *)
(* src/src/block_queue.rs), of the scene-description API state machine     *)
(* (src/rustracer-core/src/api.rs), of the primitives' ray intersection    *)
(* (src/rustracer-core/src/primitive.rs), of the MIPMap constructor        *)
(* (src/src/mipmap.rs), of the direct lighting integrator, the specular    *)
(* lobes and the shading frame (src/src/integrator, src/src/bsdf), of      *)
(* ParamSet and TextureParams (src/src/paramset.rs) and of the statistics  *)
(* accumulator (src/rustracer-core/src/stats/mod.rs).                      *)
(*                                                                         *)
(* SpecRender  : one call of render(): num_threads workers pull tiles from *)
(*               the BlockQueue and send samples over a FIFO channel, the  *)
(*               calling thread collects them into the film.               *)
(* FairRender  : the smaller renders of SpecRender, under weak fairness.   *)
(* SpecTiles   : one caller drains a BlockQueue and iterates every Block.  *)
(* SpecBlock   : one Block iterated until after it is exhausted.           *)
(* SpecApi     : any sequence of API directives on one RealApi.            *)
(* SpecConfig  : the same, with names the renderer does not implement.     *)
(* SpecScene   : the directives that build a scene, from WorldBegin on.    *)
(* SpecRay     : intersect / intersect_p calls on one ray.                 *)
(* SpecMip     : one call of MIPMap::new.                                  *)
(* SpecStacks  : the attribute and transform stack directives.             *)
(* SpecLi      : one call of DirectLightingIntegrator::li and its calls.   *)
(* SpecBxdf    : sample_f on the specular lobes.                           *)
(* SpecParams  : a ParamSet built by init and queried by find_one_*.       *)
(* SpecTexParams : lookups on a TextureParams over two ParamSets.          *)
(* SpecFrame   : a vector taken to the local shading frame and back.       *)
(* SpecStats   : report_int_distribution and print_stats.                  *)
(***************************************************************************)
EXTENDS Integers, Sequences, FiniteSets, TLC

\* ---------------------------------------------------------------- bounds
MaxW == 2
MaxH == 2
MaxBS == 2
MaxSpp == 3
MaxThreads == 2
\* the size of one modelled render: worker threads times samples sent
MaxWork == 16
\* the same, for the renders whose termination is checked
MaxFairWork == 8
\* the counters of the collecting thread when render() folds the statistics
MaxCollectorStats == 1

\* ------------------------------------------------------------- variables
VARIABLES
    \* render(): arguments
    dim, block_size, spp, num_threads,
    \* BlockQueue
    counter, num_blocks,
    \* worker threads
    wpc, wblock, wpixel, wsample, wstats,
    \* channels (std::sync::mpsc, FIFO, unbounded)
    pixel_chan, stats_chan,
    \* collecting thread
    cpc, taken, stats_taken, film, cstats, global_stats, image,
    \* observation of the run: what next() returned, what was printed,
    \* which samples were produced
    handed, progress, produced,
    \* RealApi.state
    api_state, render_options, cur_transform, named_coordinate_systems,
    pushed_transforms, graphics_state, pushed_graphics_states,
    \* observation of the API: the last directive and what it returned,
    \* the number of directives issued so far, and the transform that was
    \* current when each saved graphics state was pushed
    last, steps, attr_transforms,
    \* a single caller draining a BlockQueue and iterating each Block
    tile_pc, tile_block, covered,
    \* one Block iterated by itself: the block, the pixels next() has
    \* yielded so far, and the number of times it has returned None
    iter_block, iter_out, iter_nones,
    \* one ray tested against primitives: the ray, the last call (the
    \* primitive tested and the outcome), and the number of calls so far
    ray, ray_last, ray_calls,
    \* MIPMap::new: where the constructor is, its argument res, and the
    \* fields resolution and pyramid (the dimensions of each level)
    mip_pc, mip_res, resolution, pyramid,
    \* DirectLightingIntegrator: the field max_ray_depth and the active
    \* calls of li, outermost first (the depth argument of each and where
    \* it will continue)
    max_ray_depth, li_stack,
    \* sample_f called on specular lobes: the last call (the lobe, its
    \* inputs, the pdf and the sampled type returned) and the number of
    \* calls so far
    bxdf_last, bxdf_calls,
    \* one ParamSet built by init: its vectors of items, the last find_one
    \* call (what was asked, the outcome and the value returned), and the
    \* number of calls so far
    paramset, ps_last, ps_lookups,
    \* one TextureParams: its two ParamSets, the names in its texture
    \* tables, the last lookup (what was asked and what came back: a
    \* string, a bool, the numbers of a constant texture, or the name of a
    \* texture of the table) and the number of lookups so far
    geom_params, material_params, float_textures, spectrum_textures,
    tp_last, tp_lookups,
    \* one BSDF and one vector taken to its local frame and back: the frame
    \* (ss, ts, ns), the world vector, its local image, the vector mapped
    \* back, and how far the round trip has got
    bsdf, v_world, v_local, v_back, frame_pc,
    \* one StatAccumulator: its four int-distribution maps, the reports it
    \* has been given so far, and what the last print_stats did
    int_distribution_sums, int_distribution_counts, int_distribution_mins,
    int_distribution_maxs, stat_reports, stat_printed

renderVars == <<dim, block_size, spp, num_threads, counter, num_blocks,
                wpc, wblock, wpixel, wsample, wstats, pixel_chan, stats_chan,
                cpc, taken, stats_taken, film, cstats, global_stats, image,
                handed, progress, produced>>

apiVars == <<api_state, render_options, cur_transform, named_coordinate_systems,
             pushed_transforms, graphics_state, pushed_graphics_states, last,
             steps, attr_transforms>>

tileVars == <<tile_pc, tile_block, covered>>

iterVars == <<iter_block, iter_out, iter_nones>>

rayVars == <<ray, ray_last, ray_calls>>

mipVars == <<mip_pc, mip_res, resolution, pyramid>>

liVars == <<max_ray_depth, li_stack>>

bxdfVars == <<bxdf_last, bxdf_calls>>

psVars == <<paramset, ps_last, ps_lookups>>

tpVars == <<geom_params, material_params, float_textures, spectrum_textures,
            tp_last, tp_lookups>>

frameVars == <<bsdf, v_world, v_local, v_back, frame_pc>>

statVars == <<int_distribution_sums, int_distribution_counts,
              int_distribution_mins, int_distribution_maxs, stat_reports,
              stat_printed>>

extVars == <<liVars, bxdfVars, psVars, tpVars, frameVars, statVars>>

\* every variable group but one
notLi ==
    <<renderVars, apiVars, tileVars, iterVars, rayVars, mipVars,
      bxdfVars, psVars, tpVars, frameVars, statVars>>

notBxdf ==
    <<renderVars, apiVars, tileVars, iterVars, rayVars, mipVars,
      liVars, psVars, tpVars, frameVars, statVars>>

notPs ==
    <<renderVars, apiVars, tileVars, iterVars, rayVars, mipVars,
      liVars, bxdfVars, tpVars, frameVars, statVars>>

notTp ==
    <<renderVars, apiVars, tileVars, iterVars, rayVars, mipVars,
      liVars, bxdfVars, psVars, frameVars, statVars>>

notFrame ==
    <<renderVars, apiVars, tileVars, iterVars, rayVars, mipVars,
      liVars, bxdfVars, psVars, tpVars, statVars>>

notStat ==
    <<renderVars, apiVars, tileVars, iterVars, rayVars, mipVars,
      liVars, bxdfVars, psVars, tpVars, frameVars>>

auxVars == <<iterVars, rayVars, mipVars, extVars>>

vars == <<renderVars, apiVars, tileVars, auxVars>>

\* a multiset as a function from its elements to their counts
BagAdd(f, s) ==
    IF s \in DOMAIN f THEN [f EXCEPT ![s] = @ + 1]
    ELSE [x \in DOMAIN f \cup {s} |-> IF x = s THEN 1 ELSE f[x]]

BagCount(f, s) == IF s \in DOMAIN f THEN f[s] ELSE 0

\* ------------------------------------------------------------ Block
NoBlock == [start |-> <<0, 0>>, current |-> <<0, 0>>, end |-> <<0, 0>>]
NoPixel == <<0, 0>>

\* Block::new
BlockNew(start, size) ==
    [start |-> start, current |-> start,
     end |-> <<start[1] + size, start[2] + size>>]

\* Block::area
BlockArea(b) == (b.end[1] - b.start[1]) * (b.end[2] - b.start[2])

\* impl Iterator for Block: is the iterator exhausted
BlockAtEnd(b) == b.current[1] >= b.end[1] \/ b.current[2] >= b.end[2]

\* an iterator that starts the next row one pixel late
BlockAdvanceLateWrap(b) ==
    IF b.current[1] = b.end[1]
    THEN [b EXCEPT !.current = <<b.start[1], b.current[2] + 1>>]
    ELSE [b EXCEPT !.current = <<b.current[1] + 1, b.current[2]>>]

\* impl Iterator for Block: the block after one successful next()
BlockAdvance(b) ==
    IF b.current[1] = b.end[1] - 1
    THEN [b EXCEPT !.current = <<b.start[1], b.current[2] + 1>>]
    ELSE [b EXCEPT !.current = <<b.current[1] + 1, b.current[2]>>]

\* ------------------------------------------------------------ BlockQueue
\* BlockQueue::new: num_blocks
NumBlocks(dims, bs) == (dims[1] \div bs) * (dims[2] \div bs)

\* BlockQueue::next: the tile for counter value c (c < num_blocks)
TileStart(c, dims, bs) ==
    LET num_blocks_width == dims[1] \div bs
    IN  <<(c % num_blocks_width) * bs, (c \div num_blocks_width) * bs>>

\* a next() that uses the counter value after the increment
QueueNextPostIncrement(c, nb, dims, bs) ==
    IF c + 1 >= nb
    THEN [some |-> FALSE, index |-> c + 1, block |-> NoBlock]
    ELSE [some |-> TRUE, index |-> c + 1,
          block |-> BlockNew(TileStart(c + 1, dims, bs), bs)]

\* BlockQueue::next, given the value c that fetch_add returned
QueueNext(c, nb, dims, bs) ==
    IF c >= nb
    THEN [some |-> FALSE, index |-> c, block |-> NoBlock]
    ELSE [some |-> TRUE, index |-> c, block |-> BlockNew(TileStart(c, dims, bs), bs)]

\* ------------------------------------------------------------ sampler
RECURSIVE Pow2AtLeast(_, _)
Pow2AtLeast(n, p) == IF p >= n THEN p ELSE Pow2AtLeast(n, 2 * p)

\* ZeroTwoSequence: samples per pixel = spp rounded up to a power of two
SamplesPerPixel(n) == Pow2AtLeast(n, 1)

\* ------------------------------------------------------------ render()
Workers == 1 .. num_threads

\* renderer.rs:72, the number of samples the collecting thread takes
ExpectedSamples == num_blocks * block_size * block_size * spp

InitTileVars ==
    /\ tile_pc = "next"
    /\ tile_block = NoBlock
    /\ covered = <<>>

\* render() has not been called
NoRender ==
    /\ dim = <<1, 1>>
    /\ block_size = 1
    /\ spp = 1
    /\ num_threads = 1
    /\ counter = 0
    /\ num_blocks = 0
    /\ wpc = <<>>
    /\ wblock = <<>>
    /\ wpixel = <<>>
    /\ wsample = <<>>
    /\ wstats = <<>>
    /\ pixel_chan = <<>>
    /\ stats_chan = <<>>
    /\ cpc = "idle"
    /\ taken = 0
    /\ stats_taken = 0
    /\ film = <<>>
    /\ cstats = 0
    /\ global_stats = 0
    /\ image = <<>>
    /\ handed = <<>>
    /\ progress = 0
    /\ produced = {}

\* no Block is being iterated by itself
InitIterVars ==
    /\ iter_block = NoBlock
    /\ iter_out = <<>>
    /\ iter_nones = 0

\* no ray is being traced
InitRayVars ==
    /\ ray = [t_max |-> 0]
    /\ ray_last = [op |-> "none", prim |-> <<>>, hit |-> FALSE, t_hit |-> 0]
    /\ ray_calls = 0

\* no MIPMap is being built
InitMipVars ==
    /\ mip_pc = "idle"
    /\ mip_res = <<1, 1>>
    /\ resolution = <<1, 1>>
    /\ pyramid = <<>>

InitLiVars ==
    /\ max_ray_depth = 0
    /\ li_stack = <<>>

InitBxdfVars ==
    /\ bxdf_last = [lobe |-> "none", fr |-> 0, u |-> 0, refracted |-> FALSE,
                    pdf |-> 0, type |-> {}]
    /\ bxdf_calls = 0

\* impl Default for ParamSet (the derived Default: every vector empty)
DefaultParamSet ==
    [bools |-> <<>>, floats |-> <<>>, strings |-> <<>>, spectra |-> <<>>,
     textures |-> <<>>]

InitPsVars ==
    /\ paramset = DefaultParamSet
    /\ ps_last = [op |-> "none", name |-> "", res |-> "Ok", value |-> <<>>]
    /\ ps_lookups = 0

NoLookup ==
    [op |-> "none", d |-> FALSE, res |-> "Ok", str |-> "", bool |-> FALSE,
     nums |-> <<>>, tex |-> ""]

InitTpVars ==
    /\ geom_params = DefaultParamSet
    /\ material_params = DefaultParamSet
    /\ float_textures = {}
    /\ spectrum_textures = {}
    /\ tp_last = NoLookup
    /\ tp_lookups = 0

InitFrameVars ==
    /\ bsdf = [ss |-> <<1, 0, 0>>, ts |-> <<0, 1, 0>>, ns |-> <<0, 0, 1>>]
    /\ v_world = <<0, 0, 0>>
    /\ v_local = <<0, 0, 0>>
    /\ v_back = <<0, 0, 0>>
    /\ frame_pc = "idle"

\* StatAccumulator::default()
InitStatVars ==
    /\ int_distribution_sums = <<>>
    /\ int_distribution_counts = <<>>
    /\ int_distribution_mins = <<>>
    /\ int_distribution_maxs = <<>>
    /\ stat_reports = <<>>
    /\ stat_printed = "none"

InitExtVars ==
    /\ InitLiVars
    /\ InitBxdfVars
    /\ InitPsVars
    /\ InitTpVars
    /\ InitFrameVars
    /\ InitStatVars

InitAuxVars ==
    /\ InitIterVars
    /\ InitRayVars
    /\ InitMipVars
    /\ InitExtVars

\* impl Default for RenderOptions
DefaultRenderOptions ==
    [film_name |-> "image", filter_name |-> "box",
     sampler_name |-> "halton", accelerator_name |-> "bvh",
     integrator_name |-> "path", camera_name |-> "perspective",
     camera_to_world |-> 0,
     lights |-> <<>>, primitives |-> <<>>,
     instances |-> <<>>, current_instance |-> <<>>]

\* impl Default for GraphicsState
DefaultGraphicsState ==
    [material |-> "matte", named_material |-> <<>>,
     current_named_material |-> "", area_light |-> "",
     reverse_orientation |-> FALSE,
     float_textures |-> <<>>, spectrum_textures |-> <<>>]

InitApiVars ==
    /\ api_state = "Uninitialized"
    /\ render_options = DefaultRenderOptions
    /\ cur_transform = 0
    /\ named_coordinate_systems = <<>>
    /\ pushed_transforms = <<>>
    /\ graphics_state = DefaultGraphicsState
    /\ pushed_graphics_states = <<>>
    /\ last = [op |-> "none", res |-> "Ok", rendered |-> FALSE]
    /\ steps = 0
    /\ attr_transforms = <<>>

InitRender ==
    /\ dim \in (1 .. MaxW) \X (1 .. MaxH)
    /\ block_size \in 1 .. MaxBS
    /\ spp \in 1 .. MaxSpp
    /\ num_threads \in 1 .. MaxThreads
    /\ num_threads * NumBlocks(dim, block_size) * block_size * block_size
          * SamplesPerPixel(spp) <= MaxWork
    /\ counter = 0
    /\ num_blocks = NumBlocks(dim, block_size)
    /\ wpc = [w \in Workers |-> "next"]
    /\ wblock = [w \in Workers |-> NoBlock]
    /\ wpixel = [w \in Workers |-> NoPixel]
    /\ wsample = [w \in Workers |-> 0]
    /\ wstats = [w \in Workers |-> 0]
    /\ pixel_chan = <<>>
    /\ stats_chan = <<>>
    /\ cpc = "pixels"
    /\ taken = 0
    /\ stats_taken = 0
    /\ film = <<>>
    /\ cstats = 0
    /\ global_stats = 0
    /\ image = <<>>
    /\ handed = <<>>
    /\ progress = 0
    /\ produced = {}
    /\ InitApiVars
    /\ InitTileVars
    /\ InitAuxVars

\* while let Some(block) = block_queue.next()
WorkerNext(w) ==
    /\ wpc[w] = "next"
    /\ counter' = counter + 1
    /\ LET r == QueueNext(counter, num_blocks, dim, block_size)
       IN  IF r.some
           THEN /\ wblock' = [wblock EXCEPT ![w] = r.block]
                /\ handed' = BagAdd(handed, r.index)
                /\ wpc' = [wpc EXCEPT ![w] = "report"]
           ELSE /\ wpc' = [wpc EXCEPT ![w] = "stats"]
                /\ UNCHANGED <<wblock, handed>>
    /\ UNCHANGED <<dim, block_size, spp, num_threads, num_blocks, wpixel, wsample,
                   wstats, pixel_chan, stats_chan, cpc, taken, stats_taken, film,
                   global_stats, image, progress, produced, cstats, apiVars, tileVars, auxVars>>

\* block_queue.report_progress(), then the first step of `for p in block`
\* and sampler.start_pixel(&p)
WorkerReport(w) ==
    /\ wpc[w] = "report"
    /\ progress' = counter
    /\ IF BlockAtEnd(wblock[w])
       THEN /\ wpc' = [wpc EXCEPT ![w] = "next"]
            /\ UNCHANGED <<wblock, wpixel, wsample>>
       ELSE /\ wpixel' = [wpixel EXCEPT ![w] = wblock[w].current]
            /\ wblock' = [wblock EXCEPT ![w] = BlockAdvance(wblock[w])]
            /\ wsample' = [wsample EXCEPT ![w] = 0]
            /\ wpc' = [wpc EXCEPT ![w] = "sample"]
    /\ UNCHANGED <<dim, block_size, spp, num_threads, counter, num_blocks,
                   wstats, pixel_chan, stats_chan, cpc, taken, stats_taken, film,
                   global_stats, image, handed, produced, cstats, apiVars, tileVars, auxVars>>

\* one turn of the per-pixel loop: camera sample, li, pixel_tx.send,
\* start_next_sample; on the last sample of a pixel, the next step of
\* `for p in block`
WorkerSample(w) ==
    /\ wpc[w] = "sample"
    /\ LET s == <<wpixel[w][1], wpixel[w][2], wsample[w]>>
       IN  /\ pixel_chan' = Append(pixel_chan, s)
           /\ produced' = produced \cup {s}
    /\ wstats' = [wstats EXCEPT ![w] = @ + 1]
    /\ IF wsample[w] + 1 < SamplesPerPixel(spp)
       THEN /\ wsample' = [wsample EXCEPT ![w] = @ + 1]
            /\ UNCHANGED <<wpc, wblock, wpixel>>
       ELSE IF BlockAtEnd(wblock[w])
            THEN /\ wpc' = [wpc EXCEPT ![w] = "next"]
                 /\ UNCHANGED <<wblock, wpixel, wsample>>
            ELSE /\ wpixel' = [wpixel EXCEPT ![w] = wblock[w].current]
                 /\ wblock' = [wblock EXCEPT ![w] = BlockAdvance(wblock[w])]
                 /\ wsample' = [wsample EXCEPT ![w] = 0]
                 /\ UNCHANGED wpc
    /\ UNCHANGED <<dim, block_size, spp, num_threads, counter, num_blocks,
                   stats_chan, cpc, taken, stats_taken, film,
                   global_stats, image, handed, progress, cstats, apiVars, tileVars, auxVars>>

\* stats_tx.send(stats::get_stats()), end of the worker closure
WorkerSendStats(w) ==
    /\ wpc[w] = "stats"
    /\ stats_chan' = Append(stats_chan, [stats |-> wstats[w]])
    /\ wpc' = [wpc EXCEPT ![w] = "done"]
    /\ UNCHANGED <<dim, block_size, spp, num_threads, counter, num_blocks,
                   wblock, wpixel, wsample, wstats, pixel_chan, cpc, taken,
                   stats_taken, film, global_stats, image, handed, progress,
                   produced, cstats, apiVars, tileVars, auxVars>>

\* Film::add_sample: the film as the multiset of samples added to it
FilmAdd(f, s) == BagAdd(f, s)

\* for s in pixel_rx.iter().take(..) { film.add_sample(..) }
CollectSample ==
    /\ cpc = "pixels"
    /\ taken < ExpectedSamples
    /\ pixel_chan # <<>>
    /\ film' = FilmAdd(film, Head(pixel_chan))
    /\ pixel_chan' = Tail(pixel_chan)
    /\ taken' = taken + 1
    /\ UNCHANGED <<dim, block_size, spp, num_threads, counter, num_blocks,
                   wpc, wblock, wpixel, wsample, wstats, stats_chan, cpc,
                   stats_taken, global_stats, image, handed, progress,
                   produced, cstats, apiVars, tileVars, auxVars>>

\* the take(..) iterator is exhausted: the loop over pixel_rx ends, and
\* the fold over stats_rx starts from stats::get_stats() of the collecting
\* thread
CollectSamplesDone ==
    /\ cpc = "pixels"
    /\ taken >= ExpectedSamples
    /\ cpc' = "stats"
    /\ \E c \in 0 .. MaxCollectorStats :
          /\ cstats' = c
          /\ global_stats' = c
    /\ UNCHANGED <<dim, block_size, spp, num_threads, counter, num_blocks,
                   wpc, wblock, wpixel, wsample, wstats, pixel_chan, stats_chan,
                   taken, stats_taken, film, image, handed,
                   progress, produced, apiVars, tileVars, auxVars>>

\* a collector that waits for one worker fewer
StatsToTakeShort(n) == n - 1

\* the number of worker statistics render() waits for
StatsToTake(n) == n

\* a fold that keeps only the statistics received last
StatsKeepLast(a, b) == b

\* the closure |a, b| a + b of the fold
StatsAdd(a, b) == a + b

\* stats_rx.iter().take(num_threads).fold(stats::get_stats(), |a, b| a + b)
CollectStats ==
    /\ cpc = "stats"
    /\ stats_taken < StatsToTake(num_threads)
    /\ stats_chan # <<>>
    /\ global_stats' = StatsAdd(global_stats, Head(stats_chan).stats)
    /\ stats_chan' = Tail(stats_chan)
    /\ stats_taken' = stats_taken + 1
    /\ UNCHANGED <<dim, block_size, spp, num_threads, counter, num_blocks,
                   wpc, wblock, wpixel, wsample, wstats, pixel_chan, cpc,
                   taken, film, image, handed, progress, produced, cstats, apiVars, tileVars, auxVars>>

\* write_png(dim, &film.render(), filename); global_stats is returned
WriteImage ==
    /\ cpc = "stats"
    /\ stats_taken >= StatsToTake(num_threads)
    /\ image' = film
    /\ cpc' = "done"
    /\ UNCHANGED <<dim, block_size, spp, num_threads, counter, num_blocks,
                   wpc, wblock, wpixel, wsample, wstats, pixel_chan, stats_chan,
                   taken, stats_taken, film, global_stats, handed, progress,
                   produced, cstats, apiVars, tileVars, auxVars>>

Worker(w) ==
    \/ WorkerNext(w)
    \/ WorkerReport(w)
    \/ WorkerSample(w)
    \/ WorkerSendStats(w)

Collector ==
    \/ CollectSample
    \/ CollectSamplesDone
    \/ CollectStats
    \/ WriteImage

NextRender ==
    \/ \E w \in Workers : WorkerNext(w)
    \/ \E w \in Workers : WorkerReport(w)
    \/ \E w \in Workers : WorkerSample(w)
    \/ \E w \in Workers : WorkerSendStats(w)
    \/ CollectSample
    \/ CollectSamplesDone
    \/ CollectStats
    \/ WriteImage

SpecRender == InitRender /\ [][NextRender]_vars

\* the operating system keeps running some runnable thread: a step of render
\* that stays possible is eventually taken (weaker than fairness to each
\* thread, which the thread pool also gives)
InitFair ==
    /\ InitRender
    /\ num_threads * NumBlocks(dim, block_size) * block_size * block_size
          * SamplesPerPixel(spp) <= MaxFairWork

FairRender == InitFair /\ [][NextRender]_vars /\ WF_vars(NextRender)

\* ------------------------------------------------- tiles of a BlockQueue
MaxTW == 4
MaxTH == 3
MaxTBS == 3

InitTiles ==
    /\ dim \in (1 .. MaxTW) \X (1 .. MaxTH)
    /\ block_size \in 1 .. MaxTBS
    /\ spp = 1
    /\ num_threads = 1
    /\ counter = 0
    /\ num_blocks = NumBlocks(dim, block_size)
    /\ wpc = [w \in Workers |-> "next"]
    /\ wblock = [w \in Workers |-> NoBlock]
    /\ wpixel = [w \in Workers |-> NoPixel]
    /\ wsample = [w \in Workers |-> 0]
    /\ wstats = [w \in Workers |-> 0]
    /\ pixel_chan = <<>>
    /\ stats_chan = <<>>
    /\ cpc = "pixels"
    /\ taken = 0
    /\ stats_taken = 0
    /\ film = <<>>
    /\ cstats = 0
    /\ global_stats = 0
    /\ image = <<>>
    /\ handed = <<>>
    /\ progress = 0
    /\ produced = {}
    /\ InitApiVars
    /\ InitTileVars
    /\ InitAuxVars

\* BlockQueue::next called by the only caller
TileNext ==
    /\ tile_pc = "next"
    /\ counter' = counter + 1
    /\ LET r == QueueNext(counter, num_blocks, dim, block_size)
       IN  IF r.some
           THEN /\ tile_block' = r.block
                /\ handed' = BagAdd(handed, r.index)
                /\ tile_pc' = "iter"
           ELSE /\ tile_pc' = "done"
                /\ UNCHANGED <<tile_block, handed>>
    /\ UNCHANGED <<dim, block_size, spp, num_threads, num_blocks, wpc, wblock,
                   wpixel, wsample, wstats, pixel_chan, stats_chan, cpc, taken,
                   stats_taken, film, global_stats, image, progress, produced,
                   covered, cstats, apiVars, auxVars>>

\* one call of Block::next on the current tile
TilePixel ==
    /\ tile_pc = "iter"
    /\ IF BlockAtEnd(tile_block)
       THEN /\ tile_pc' = "next"
            /\ UNCHANGED <<tile_block, covered>>
       ELSE /\ covered' = BagAdd(covered, tile_block.current)
            /\ tile_block' = BlockAdvance(tile_block)
            /\ UNCHANGED tile_pc
    /\ UNCHANGED <<renderVars, apiVars, auxVars>>

NextTiles ==
    \/ TileNext
    \/ TilePixel

SpecTiles == InitTiles /\ [][NextTiles]_vars

\* ------------------------------------------------- one Block, iterated
\* a Block starts at (0 .. MaxStart, 0 .. MaxStart) and has side
\* 1 .. MaxSize; next() is called MaxNoneCalls times after it is exhausted
MaxStart == 2
MaxSize == 3
MaxNoneCalls == 2

\* Block::new(start, size)
InitBlock ==
    /\ \E start \in (0 .. MaxStart) \X (0 .. MaxStart), size \in 1 .. MaxSize :
          iter_block = BlockNew(start, size)
    /\ iter_out = <<>>
    /\ iter_nones = 0
    /\ InitRayVars
    /\ InitMipVars
    /\ InitExtVars
    /\ InitApiVars
    /\ InitTileVars
    /\ NoRender

\* one call of Block::next
BlockNext ==
    /\ IF BlockAtEnd(iter_block)
       THEN /\ iter_nones < MaxNoneCalls
            /\ iter_nones' = iter_nones + 1
            /\ UNCHANGED <<iter_block, iter_out>>
       ELSE /\ iter_out' = Append(iter_out, iter_block.current)
            /\ iter_block' = BlockAdvance(iter_block)
            /\ UNCHANGED iter_nones
    /\ UNCHANGED <<renderVars, apiVars, tileVars, rayVars, mipVars, extVars>>

NextBlock == BlockNext

SpecBlock == InitBlock /\ [][NextBlock]_vars

\* =================================================== scene-description API
\* the number of directives of one modelled scene description
MaxDirectives == 5
\* Transform is modelled as the cyclic group of order MaxXform + 1
\* (0 is Transform::default(), the identity)
MaxXform == 1

Compose(a, b) == (a + b) % (MaxXform + 1)
Inverse(a) == (MaxXform + 1 - a) % (MaxXform + 1)

\* HashMap::insert / HashMap::contains_key
MapPut(m, k, v) == [x \in DOMAIN m \cup {k} |-> IF x = k THEN v ELSE m[x]]
MapHas(m, k) == k \in DOMAIN m

\* Option<String>
None == <<>>
Some(x) == <<x>>

\* State, as one value
apiCore == <<api_state, render_options, cur_transform, named_coordinate_systems,
             pushed_transforms, graphics_state, pushed_graphics_states>>

State == [api_state |-> api_state,
          render_options |-> render_options,
          cur_transform |-> cur_transform,
          named_coordinate_systems |-> named_coordinate_systems,
          pushed_transforms |-> pushed_transforms,
          graphics_state |-> graphics_state,
          pushed_graphics_states |-> pushed_graphics_states]

\* what a directive returns: Ok(()), Err(..), or a panic that ends the process
Ok(st) == [st |-> st, res |-> "Ok", rendered |-> FALSE]
Err(st) == [st |-> st, res |-> "Err", rendered |-> FALSE]
Panic(st) == [st |-> st, res |-> "Panic", rendered |-> FALSE]

\* ApiState::verify_*: TRUE when the check returns Ok(())
verify_uninitialized(s) == s = "Uninitialized"
verify_initialized(s) == s # "Uninitialized"

\* a verify_options that forgets the WorldBlock test
verify_options_any_block(s) == verify_initialized(s)

verify_options(s) == verify_initialized(s) /\ s # "WorldBlock"

verify_world(s) == verify_initialized(s) /\ s # "OptionsBlock"

\* State::save_* / State::restore_*
save_graphics_state(st) ==
    [st EXCEPT !.pushed_graphics_states = Append(@, st.graphics_state)]
save_transform(st) ==
    [st EXCEPT !.pushed_transforms = Append(@, st.cur_transform)]
restore_graphics_state(st) ==
    [st EXCEPT !.graphics_state = st.pushed_graphics_states[Len(st.pushed_graphics_states)],
               !.pushed_graphics_states = SubSeq(@, 1, Len(@) - 1)]
restore_transform(st) ==
    [st EXCEPT !.cur_transform = st.pushed_transforms[Len(st.pushed_transforms)],
               !.pushed_transforms = SubSeq(@, 1, Len(@) - 1)]

\* an init without the verify_uninitialized()? call
init_unverified(st) == Ok([st EXCEPT !.api_state = "OptionsBlock"])

\* RealApi::init
init(st) ==
    IF ~verify_uninitialized(st.api_state) THEN Err(st)
    ELSE Ok([st EXCEPT !.api_state = "OptionsBlock"])

\* RealApi::identity
identity(st) ==
    IF ~verify_initialized(st.api_state) THEN Err(st)
    ELSE Ok([st EXCEPT !.cur_transform = 0])

\* RealApi::translate / rotate / scale / look_at / concat_transform:
\* cur_transform = cur_transform * t
translate(st, t) ==
    IF ~verify_initialized(st.api_state) THEN Err(st)
    ELSE Ok([st EXCEPT !.cur_transform = Compose(@, t)])
rotate(st, t) ==
    IF ~verify_initialized(st.api_state) THEN Err(st)
    ELSE Ok([st EXCEPT !.cur_transform = Compose(@, t)])
scale(st, t) ==
    IF ~verify_initialized(st.api_state) THEN Err(st)
    ELSE Ok([st EXCEPT !.cur_transform = Compose(@, t)])
look_at(st, t) ==
    IF ~verify_initialized(st.api_state) THEN Err(st)
    ELSE Ok([st EXCEPT !.cur_transform = Compose(@, t)])
concat_transform(st, t) ==
    IF ~verify_initialized(st.api_state) THEN Err(st)
    ELSE Ok([st EXCEPT !.cur_transform = Compose(@, t)])

\* RealApi::transform
transform(st, t) ==
    IF ~verify_initialized(st.api_state) THEN Err(st)
    ELSE Ok([st EXCEPT !.cur_transform = t])

\* RealApi::coordinate_system
coordinate_system(st, name) ==
    IF ~verify_initialized(st.api_state) THEN Err(st)
    ELSE Ok([st EXCEPT !.named_coordinate_systems = MapPut(@, name, st.cur_transform)])

\* RealApi::coord_sys_transform
coord_sys_transform(st, name) ==
    IF ~verify_initialized(st.api_state) THEN Err(st)
    ELSE IF MapHas(st.named_coordinate_systems, name)
         THEN Ok([st EXCEPT !.cur_transform = st.named_coordinate_systems[name]])
         ELSE Ok(st)

\* RealApi::pixel_filter
pixel_filter(st, name) ==
    IF ~verify_options(st.api_state) THEN Err(st)
    ELSE Ok([st EXCEPT !.render_options.filter_name = name])

\* RealApi::film
api_film(st, name) ==
    IF ~verify_options(st.api_state) THEN Err(st)
    ELSE Ok([st EXCEPT !.render_options.film_name = name])

\* RealApi::sampler
sampler(st, name) ==
    IF ~verify_options(st.api_state) THEN Err(st)
    ELSE Ok([st EXCEPT !.render_options.sampler_name = name])

\* RealApi::accelerator
accelerator(st, name) ==
    IF ~verify_options(st.api_state) THEN Err(st)
    ELSE Ok([st EXCEPT !.render_options.accelerator_name = name])

\* RealApi::integrator
integrator(st, name) ==
    IF ~verify_options(st.api_state) THEN Err(st)
    ELSE Ok([st EXCEPT !.render_options.integrator_name = name])

\* RealApi::camera
camera(st, name) ==
    IF ~verify_options(st.api_state) THEN Err(st)
    ELSE LET c2w == Inverse(st.cur_transform)
         IN  Ok([st EXCEPT !.render_options.camera_name = name,
                           !.render_options.camera_to_world = c2w,
                           !.named_coordinate_systems = MapPut(@, "camera", c2w)])

\* RealApi::world_begin
world_begin(st) ==
    IF ~verify_options(st.api_state) THEN Err(st)
    ELSE Ok([st EXCEPT !.api_state = "WorldBlock",
                      !.named_coordinate_systems = MapPut(@, "world", st.cur_transform),
                      !.cur_transform = 0])

\* RealApi::attribute_begin
attribute_begin(st) ==
    IF ~verify_world(st.api_state) THEN Err(st)
    ELSE Ok(save_transform(save_graphics_state(st)))

\* an attribute_end without the is_empty() test: pop().unwrap() panics
attribute_end_unguarded(st) ==
    IF ~verify_world(st.api_state) THEN Err(st)
    ELSE IF st.pushed_graphics_states = <<>> \/ st.pushed_transforms = <<>>
         THEN Panic(st)
         ELSE Ok(restore_transform(restore_graphics_state(st)))

\* RealApi::attribute_end
attribute_end(st) ==
    IF ~verify_world(st.api_state) THEN Err(st)
    ELSE IF st.pushed_graphics_states = <<>> THEN Ok(st)
    ELSE IF st.pushed_transforms = <<>> THEN Panic(st)
    ELSE Ok(restore_transform(restore_graphics_state(st)))

\* RealApi::transform_begin
transform_begin(st) ==
    IF ~verify_world(st.api_state) THEN Err(st)
    ELSE Ok(save_transform(st))

\* RealApi::transform_end
transform_end(st) ==
    IF ~verify_world(st.api_state) THEN Err(st)
    ELSE IF st.pushed_transforms = <<>> THEN Ok(st)
    ELSE Ok(restore_transform(st))

\* make_float_texture: TRUE when it returns Ok
make_float_texture(texname) == texname \in {"constant", "scale", "imagemap", "fbm"}

\* make_spectrum_texture: "Ok", "Err" (bail!) or "Panic" (unimplemented!())
make_spectrum_texture(texname) ==
    IF texname \in {"constant", "scale", "imagemap", "uv", "checkerboard", "fbm"} THEN "Ok"
    ELSE IF texname \in {"mix", "bilerp", "dots", "wrinkled", "marble", "windy", "ptex"}
         THEN "Panic"
         ELSE "Err"

\* RealApi::texture
texture(st, name, typ, texname) ==
    IF ~verify_world(st.api_state) THEN Err(st)
    ELSE IF typ = "float"
         THEN IF make_float_texture(texname)
              THEN Ok([st EXCEPT !.graphics_state.float_textures = MapPut(@, name, texname)])
              ELSE Ok(st)
    ELSE IF typ = "color" \/ typ = "spectrum"
         THEN IF make_spectrum_texture(texname) = "Panic" THEN Panic(st)
              ELSE IF make_spectrum_texture(texname) = "Ok"
                   THEN Ok([st EXCEPT !.graphics_state.spectrum_textures = MapPut(@, name, texname)])
                   ELSE Ok(st)
    ELSE Ok(st)

\* a make_material without the final else branch
make_material_no_fallback(name) == name

\* make_material: the material built for a name
make_material(name) ==
    IF name \in {"matte", "plastic", "glass", "mirror", "metal", "substrate",
                 "translucent", "uber", "disney"}
    THEN name
    ELSE "matte"

\* GraphicsState::create_material
create_material(gs) ==
    IF gs.current_named_material # ""
    THEN IF MapHas(gs.named_material, gs.current_named_material)
         THEN gs.named_material[gs.current_named_material]
         ELSE make_material("matte")
    ELSE make_material(gs.material)

\* RealApi::make_named_material (mat_type is the "type" string parameter,
\* "" when the parameter is absent)
make_named_material(st, name, mat_type) ==
    IF mat_type = "" THEN Err(st)
    ELSE Ok([st EXCEPT !.graphics_state.named_material = MapPut(@, name, make_material(mat_type))])

\* RealApi::material
material(st, name) ==
    Ok([st EXCEPT !.graphics_state.material = name,
                  !.graphics_state.current_named_material = ""])

\* RealApi::named_material
named_material(st, name) ==
    IF ~verify_world(st.api_state) THEN Err(st)
    ELSE Ok([st EXCEPT !.graphics_state.current_named_material = name])

\* RealApi::make_light: TRUE when it returns Ok
make_light(name) == name \in {"point", "distant", "infinite"}

\* RealApi::lightsource
lightsource(st, name) ==
    IF ~verify_world(st.api_state) THEN Err(st)
    ELSE IF ~make_light(name) THEN Err(st)
    ELSE Ok([st EXCEPT !.render_options.lights = Append(@, name)])

\* RealApi::arealightsource
arealightsource(st, name) ==
    Ok([st EXCEPT !.graphics_state.area_light = name])

\* make_shapes: the number of shapes made (n for a mesh of n triangles),
\* or -1 for unimplemented!()
make_shapes(name, n) ==
    IF name \in {"sphere", "cylinder", "disk"} THEN 1
    ELSE IF name \in {"cone", "paraboloid", "hyperboloid", "curve"} THEN -1
    ELSE IF name \in {"trianglemesh", "plymesh"} THEN n
    ELSE 0

\* make_area_light: TRUE when it returns Ok
make_area_light(name) == name \in {"area", "diffuse"}

\* a primitive: GeometricPrimitive, TransformedPrimitive or the BVH aggregate
GeometricPrimitive(shp, mat, area) ==
    [kind |-> "Geometric", shape |-> shp, material |-> mat, area_light |-> area,
     inner |-> <<>>, primitive_to_world |-> 0]
TransformedPrimitive(prim, t) ==
    [kind |-> "Transformed", shape |-> "", material |-> "", area_light |-> "",
     inner |-> <<prim>>, primitive_to_world |-> t]

\* make_accelerator: TRUE when it reaches unimplemented!()
make_accelerator_panics(accelerator_name) == accelerator_name = "kdtree"

\* make_accelerator: the aggregate over prims (BVH::create in both branches)
make_accelerator(accelerator_name, prims) ==
    [kind |-> "BVH", shape |-> "", material |-> "", area_light |-> "",
     inner |-> prims, primitive_to_world |-> 0]

\* RealApi::shape
shape(st, name, n) ==
    IF ~verify_world(st.api_state) THEN Err(st)
    ELSE IF make_shapes(name, n) = -1 THEN Panic(st)
    ELSE LET count == make_shapes(name, n)
             gs == st.graphics_state
             ro == st.render_options
             mat == IF count > 0 THEN create_material(gs) ELSE ""
             prims == [i \in 1 .. count |-> GeometricPrimitive(name, mat, gs.area_light)]
             area_lights == [i \in 1 .. count |-> gs.area_light]
         IN  IF count > 0 /\ gs.area_light # "" /\ ~make_area_light(gs.area_light)
             THEN Err(st)
             ELSE IF ro.current_instance # None
                  THEN IF ~MapHas(ro.instances, ro.current_instance[1]) THEN Err(st)
                       ELSE Ok([st EXCEPT !.render_options.instances[ro.current_instance[1]] = @ \o prims])
                  ELSE Ok([st EXCEPT !.render_options.primitives = @ \o prims,
                                     !.render_options.lights =
                                         IF gs.area_light # "" THEN @ \o area_lights ELSE @])

\* RealApi::reverse_orientation
reverse_orientation(st) ==
    IF ~verify_world(st.api_state) THEN Err(st)
    ELSE Ok([st EXCEPT !.graphics_state.reverse_orientation = ~@])

\* RenderOptions::make_filter / make_film / make_camera / make_integrator /
\* make_sampler: TRUE when they return Ok
make_filter(ro) == ro.filter_name \in {"box", "mitchell", "gaussian", "triangle"}
make_film(ro) == ro.film_name = "image"
make_camera(ro) == make_filter(ro) /\ make_film(ro) /\ ro.camera_name = "perspective"
make_integrator(ro) == ro.integrator_name \in {"whitted", "directlighting", "path", "normal"}
make_sampler(ro) == ro.sampler_name \in {"lowdiscrepancy", "02sequence"}

\* RenderOptions::make_scene: "Ok", or "Panic" from make_accelerator
make_scene(ro) ==
    IF make_accelerator_panics(ro.accelerator_name) THEN "Panic" ELSE "Ok"

\* RealApi::world_end (render_result is what renderer::render returns)
world_end(st, render_result) ==
    IF ~verify_world(st.api_state) THEN Err(st)
    ELSE LET popped == [st EXCEPT !.pushed_graphics_states = <<>>,
                                  !.pushed_transforms = <<>>]
             ro == st.render_options
         IN  IF ~make_camera(ro) THEN Err(popped)
             ELSE IF ~make_integrator(ro) THEN Err(popped)
             ELSE IF ~make_sampler(ro) THEN Err(popped)
             ELSE IF make_scene(ro) = "Panic" THEN Panic(popped)
             ELSE [st |-> popped, res |-> render_result, rendered |-> TRUE]

\* RealApi::object_begin
object_begin(st, name) ==
    LET r == attribute_begin(st)
    IN  IF r.res # "Ok" THEN r
        ELSE IF ~verify_world(r.st.api_state) THEN Err(r.st)
        ELSE IF r.st.render_options.current_instance # None THEN Err(r.st)
        ELSE Ok([r.st EXCEPT !.render_options.current_instance = Some(name),
                             !.render_options.instances = MapPut(@, name, <<>>)])

\* RealApi::object_end
object_end(st) ==
    IF ~verify_world(st.api_state) THEN Err(st)
    ELSE IF st.render_options.current_instance = None THEN Err(st)
    ELSE attribute_end([st EXCEPT !.render_options.current_instance = None])

\* an object_instance that builds the aggregate whenever the object is not
\* empty
object_instance_rebuild(st, name) ==
    IF ~verify_world(st.api_state) THEN Err(st)
    ELSE IF st.render_options.current_instance # None THEN Err(st)
    ELSE IF ~MapHas(st.render_options.instances, name) THEN Err(st)
    ELSE LET inst == st.render_options.instances[name]
         IN  IF inst = <<>> THEN Ok(st)
             ELSE LET accel == make_accelerator(st.render_options.accelerator_name, inst)
                  IN  Ok([st EXCEPT
                            !.render_options.instances[name] = <<accel>>,
                            !.render_options.primitives =
                                Append(@, TransformedPrimitive(accel, st.cur_transform))])

\* RealApi::object_instance
object_instance(st, name) ==
    IF ~verify_world(st.api_state) THEN Err(st)
    ELSE IF st.render_options.current_instance # None THEN Err(st)
    ELSE IF ~MapHas(st.render_options.instances, name) THEN Err(st)
    ELSE LET inst == st.render_options.instances[name]
         IN  IF inst = <<>> THEN Ok(st)
             ELSE IF Len(inst) > 1
                  THEN LET accel == make_accelerator(st.render_options.accelerator_name, inst)
                       IN  IF make_accelerator_panics(st.render_options.accelerator_name)
                           THEN Panic(st)
                           ELSE Ok([st EXCEPT
                                      !.render_options.instances[name] = <<accel>>,
                                      !.render_options.primitives =
                                          Append(@, TransformedPrimitive(accel, st.cur_transform))])
                  ELSE Ok([st EXCEPT !.render_options.primitives =
                                         Append(@, TransformedPrimitive(inst[1], st.cur_transform))])

\* one directive issued by the driver: the state becomes r.st and the
\* driver sees r.res; after a panic the process is gone.  attr_transforms
\* is an observation, not program state: entry i is the transform that was
\* current when the i-th saved graphics state was pushed
Directive(op, r) ==
    /\ steps < MaxDirectives
    /\ last.res # "Panic"
    /\ steps' = steps + 1
    /\ last' = [op |-> op, res |-> r.res, rendered |-> r.rendered]
    /\ api_state' = r.st.api_state
    /\ render_options' = r.st.render_options
    /\ cur_transform' = r.st.cur_transform
    /\ named_coordinate_systems' = r.st.named_coordinate_systems
    /\ pushed_transforms' = r.st.pushed_transforms
    /\ graphics_state' = r.st.graphics_state
    /\ pushed_graphics_states' = r.st.pushed_graphics_states
    /\ attr_transforms' =
         IF Len(r.st.pushed_graphics_states) > Len(pushed_graphics_states)
         THEN Append(attr_transforms, cur_transform)
         ELSE SubSeq(attr_transforms, 1, Len(r.st.pushed_graphics_states))
    /\ UNCHANGED <<renderVars, tileVars, auxVars>>

CallInit == Directive("init", init(State))
CallIdentity == Directive("identity", identity(State))
CallTranslate(t) == Directive("translate", translate(State, t))
CallRotate(t) == Directive("rotate", rotate(State, t))
CallScale(t) == Directive("scale", scale(State, t))
CallLookAt(t) == Directive("look_at", look_at(State, t))
CallConcatTransform(t) == Directive("concat_transform", concat_transform(State, t))
CallTransform(t) == Directive("transform", transform(State, t))
CallCoordinateSystem(n) == Directive("coordinate_system", coordinate_system(State, n))
CallCoordSysTransform(n) == Directive("coord_sys_transform", coord_sys_transform(State, n))
CallPixelFilter(n) == Directive("pixel_filter", pixel_filter(State, n))
CallFilm(n) == Directive("film", api_film(State, n))
CallSampler(n) == Directive("sampler", sampler(State, n))
CallAccelerator(n) == Directive("accelerator", accelerator(State, n))
CallIntegrator(n) == Directive("integrator", integrator(State, n))
CallCamera(n) == Directive("camera", camera(State, n))
CallWorldBegin == Directive("world_begin", world_begin(State))
CallAttributeBegin == Directive("attribute_begin", attribute_begin(State))
CallAttributeEnd == Directive("attribute_end", attribute_end(State))
CallTransformBegin == Directive("transform_begin", transform_begin(State))
CallTransformEnd == Directive("transform_end", transform_end(State))
CallTexture(n, typ, tex) == Directive("texture", texture(State, n, typ, tex))
CallMaterial(n) == Directive("material", material(State, n))
CallMakeNamedMaterial(n, typ) == Directive("make_named_material", make_named_material(State, n, typ))
CallNamedMaterial(n) == Directive("named_material", named_material(State, n))
CallLightSource(n) == Directive("lightsource", lightsource(State, n))
CallAreaLightSource(n) == Directive("arealightsource", arealightsource(State, n))
CallShape(n, k) == Directive("shape", shape(State, n, k))
CallReverseOrientation == Directive("reverse_orientation", reverse_orientation(State))
CallObjectBegin(n) == Directive("object_begin", object_begin(State, n))
CallObjectEnd == Directive("object_end", object_end(State))
CallObjectInstance(n) == Directive("object_instance", object_instance(State, n))
CallWorldEnd(rr) == Directive("world_end", world_end(State, rr))

\* the directives of the scene language, with arguments drawn from I
ApiNext(I) ==
    \/ CallInit
    \/ CallIdentity
    \/ \E t \in I.xforms : CallTranslate(t)
    \/ \E t \in I.xforms : CallRotate(t)
    \/ \E t \in I.xforms : CallScale(t)
    \/ \E t \in I.xforms : CallLookAt(t)
    \/ \E t \in I.xforms : CallConcatTransform(t)
    \/ \E t \in I.xforms : CallTransform(t)
    \/ \E n \in I.coord_systems : CallCoordinateSystem(n)
    \/ \E n \in I.coord_systems : CallCoordSysTransform(n)
    \/ \E n \in I.filters : CallPixelFilter(n)
    \/ \E n \in I.films : CallFilm(n)
    \/ \E n \in I.samplers : CallSampler(n)
    \/ \E n \in I.accelerators : CallAccelerator(n)
    \/ \E n \in I.integrators : CallIntegrator(n)
    \/ \E n \in I.cameras : CallCamera(n)
    \/ CallWorldBegin
    \/ CallAttributeBegin
    \/ CallAttributeEnd
    \/ CallTransformBegin
    \/ CallTransformEnd
    \/ \E n \in I.texture_names, typ \in I.texture_types, tex \in I.texture_classes :
          CallTexture(n, typ, tex)
    \/ \E n \in I.materials : CallMaterial(n)
    \/ \E n \in I.named_materials, typ \in I.material_types : CallMakeNamedMaterial(n, typ)
    \/ \E n \in I.named_materials : CallNamedMaterial(n)
    \/ \E n \in I.lights : CallLightSource(n)
    \/ \E n \in I.area_lights : CallAreaLightSource(n)
    \/ \E n \in I.shapes, k \in I.mesh_sizes : CallShape(n, k)
    \/ CallReverseOrientation
    \/ \E n \in I.objects : CallObjectBegin(n)
    \/ CallObjectEnd
    \/ \E n \in I.objects : CallObjectInstance(n)
    \/ \E rr \in I.render_results : CallWorldEnd(rr)

\* RealApi::default(): State::default(), and no render in progress
InitApi ==
    /\ InitApiVars
    /\ InitTileVars
    /\ InitAuxVars
    /\ dim = <<1, 1>>
    /\ block_size = 1
    /\ spp = 1
    /\ num_threads = 1
    /\ counter = 0
    /\ num_blocks = 0
    /\ wpc = <<>>
    /\ wblock = <<>>
    /\ wpixel = <<>>
    /\ wsample = <<>>
    /\ wstats = <<>>
    /\ pixel_chan = <<>>
    /\ stats_chan = <<>>
    /\ cpc = "idle"
    /\ taken = 0
    /\ stats_taken = 0
    /\ film = <<>>
    /\ cstats = 0
    /\ global_stats = 0
    /\ image = <<>>
    /\ handed = <<>>
    /\ progress = 0
    /\ produced = {}

\* the arguments the driver passes in SpecApi
ApiInputs ==
    [xforms |-> 1 .. MaxXform,
     coord_systems |-> {"c1"},
     filters |-> {"mitchell"},
     films |-> {"image"},
     samplers |-> {"02sequence"},
     accelerators |-> {"bvh"},
     integrators |-> {"whitted"},
     cameras |-> {"perspective"},
     texture_names |-> {"t1"},
     texture_types |-> {"float", "spectrum"},
     texture_classes |-> {"constant"},
     materials |-> {"plastic"},
     named_materials |-> {"m1"},
     material_types |-> {"", "glass"},
     lights |-> {"point", "bogus"},
     area_lights |-> {"diffuse"},
     shapes |-> {"sphere"},
     mesh_sizes |-> {1},
     objects |-> {"o1"},
     render_results |-> {"Ok", "Err"}]

NextApi == ApiNext(ApiInputs)

SpecApi == InitApi /\ [][NextApi]_vars

\* the state of a RealApi after the directives init and world_begin, with
\* the directive count restarted
InitScene ==
    /\ api_state = "WorldBlock"
    /\ render_options = DefaultRenderOptions
    /\ cur_transform = 0
    /\ named_coordinate_systems = MapPut(<<>>, "world", 0)
    /\ pushed_transforms = <<>>
    /\ graphics_state = DefaultGraphicsState
    /\ pushed_graphics_states = <<>>
    /\ last = [op |-> "world_begin", res |-> "Ok", rendered |-> FALSE]
    /\ steps = 0
    /\ attr_transforms = <<>>
    /\ InitTileVars
    /\ InitAuxVars
    /\ NoRender

\* the directives that build the scene, with a mesh of two triangles, a
\* material name that does not exist and a named material that may not
\* have been defined
NextScene ==
    \/ \E t \in 1 .. MaxXform : CallTranslate(t)
    \/ CallAttributeBegin
    \/ CallAttributeEnd
    \/ CallMaterial("bogus")
    \/ CallMakeNamedMaterial("m1", "glass")
    \/ CallNamedMaterial("m1")
    \/ \E n \in {"sphere", "trianglemesh"} : CallShape(n, 2)
    \/ CallObjectBegin("o1")
    \/ CallObjectEnd
    \/ CallObjectInstance("o1")

SpecScene == InitScene /\ [][NextScene]_vars

\* the directives that save and restore the graphics state and the
\* transform, in any nesting, with a transform change between them
NextStacks ==
    \/ \E t \in 1 .. MaxXform : CallTranslate(t)
    \/ CallAttributeBegin
    \/ CallAttributeEnd
    \/ CallTransformBegin
    \/ CallTransformEnd
    \/ CallObjectBegin("o1")
    \/ CallObjectEnd

SpecStacks == InitScene /\ [][NextStacks]_vars

\* the arguments the driver passes in SpecConfig: names the scene language
\* has but the renderer does not implement
ConfigInputs ==
    [xforms |-> 1 .. MaxXform,
     coord_systems |-> {"c1"},
     filters |-> {"bogus"},
     films |-> {"image"},
     samplers |-> {"02sequence"},
     accelerators |-> {"kdtree"},
     integrators |-> {"whitted"},
     cameras |-> {"perspective"},
     texture_names |-> {"t1"},
     texture_types |-> {"float", "spectrum"},
     texture_classes |-> {"mix"},
     materials |-> {"plastic"},
     named_materials |-> {"m1"},
     material_types |-> {"glass"},
     lights |-> {"point"},
     area_lights |-> {"diffuse"},
     shapes |-> {"sphere"},
     mesh_sizes |-> {1},
     objects |-> {"o1"},
     render_results |-> {"Ok", "Err"}]

NextConfig == ApiNext(ConfigInputs)

SpecConfig == InitApi /\ [][NextConfig]_vars

\* ========================================================= primitives
\* ray distances are integers 1 .. MaxT; MaxRayCalls calls are made on one
\* ray; a TransformedPrimitive is nested at most MaxNest deep
MaxT == 4
MaxRayCalls == 3
MaxNest == 1

\* primitive_to_world.inverse() * ray: the ray in the primitive's space,
\* with the same parametrisation (t_max is kept)
TransformRay(t, r) == r

\* Shape::intersect: Some((isect, t_hit)) as <<t_hit>>, or None as <<>>.  A
\* shape is given by the distance at which the ray meets it (0: the ray
\* does not meet it); a hit beyond ray.t_max is not reported.
ShapeIntersect(shp, r) == IF shp > 0 /\ shp <= r.t_max THEN <<shp>> ELSE <<>>

\* Shape::intersect_p
ShapeIntersectP(shp, r) == shp > 0 /\ shp <= r.t_max

\* a GeometricPrimitive::intersect that adds the hit distance to t_max
GeometricIntersectAccumulate(p, r) ==
    LET h == ShapeIntersect(p.shape, r)
    IN  IF h = <<>> THEN [ray |-> r, hit |-> FALSE, t_hit |-> 0]
        ELSE [ray |-> [r EXCEPT !.t_max = @ + h[1]], hit |-> TRUE, t_hit |-> h[1]]

\* GeometricPrimitive::intersect: the ray afterwards and whether Some(isect)
\* is returned
GeometricIntersect(p, r) ==
    LET h == ShapeIntersect(p.shape, r)
    IN  IF h = <<>> THEN [ray |-> r, hit |-> FALSE, t_hit |-> 0]
        ELSE [ray |-> [r EXCEPT !.t_max = h[1]], hit |-> TRUE, t_hit |-> h[1]]

\* GeometricPrimitive::intersect_p
GeometricIntersectP(p, r) == ShapeIntersectP(p.shape, r)

\* Primitive::intersect, dispatched on the kind of primitive;
\* TransformedPrimitive::intersect works on the copy r2 and writes
\* ray.t_max = r2.t_max only when the inner primitive reports a hit
RECURSIVE PrimitiveIntersect(_, _)
PrimitiveIntersect(p, r) ==
    IF p.kind = "Geometric" THEN GeometricIntersect(p, r)
    ELSE LET r2 == TransformRay(Inverse(p.primitive_to_world), r)
             inner == PrimitiveIntersect(p.inner[1], r2)
         IN  IF inner.hit
             THEN [ray |-> [r EXCEPT !.t_max = inner.ray.t_max],
                   hit |-> TRUE, t_hit |-> inner.t_hit]
             ELSE [ray |-> r, hit |-> FALSE, t_hit |-> 0]

\* Primitive::intersect_p, dispatched on the kind of primitive
RECURSIVE PrimitiveIntersectP(_, _)
PrimitiveIntersectP(p, r) ==
    IF p.kind = "Geometric" THEN GeometricIntersectP(p, r)
    ELSE PrimitiveIntersectP(p.inner[1], TransformRay(Inverse(p.primitive_to_world), r))

\* the primitives a ray is tested against
RECURSIVE RayPrimitives(_)
RayPrimitives(depth) ==
    IF depth = 0
    THEN {GeometricPrimitive(d, "matte", "") : d \in 0 .. MaxT}
    ELSE RayPrimitives(depth - 1) \cup
         {TransformedPrimitive(q, t) : q \in RayPrimitives(depth - 1), t \in 0 .. MaxXform}

\* a new ray, not yet tested against anything
InitRay ==
    /\ ray \in [t_max : 1 .. MaxT]
    /\ ray_last = [op |-> "none", prim |-> None, hit |-> FALSE, t_hit |-> 0]
    /\ ray_calls = 0
    /\ InitIterVars
    /\ InitMipVars
    /\ InitExtVars
    /\ InitApiVars
    /\ InitTileVars
    /\ NoRender

\* one call p.intersect(&mut ray)
RayIntersect(p) ==
    /\ ray_calls < MaxRayCalls
    /\ LET res == PrimitiveIntersect(p, ray)
       IN  /\ ray' = res.ray
           /\ ray_last' = [op |-> "intersect", prim |-> Some(p),
                           hit |-> res.hit, t_hit |-> res.t_hit]
    /\ ray_calls' = ray_calls + 1
    /\ UNCHANGED <<renderVars, apiVars, tileVars, iterVars, mipVars, extVars>>

\* one call p.intersect_p(&ray)
RayIntersectP(p) ==
    /\ ray_calls < MaxRayCalls
    /\ ray_last' = [op |-> "intersect_p", prim |-> Some(p),
                    hit |-> PrimitiveIntersectP(p, ray), t_hit |-> 0]
    /\ ray_calls' = ray_calls + 1
    /\ UNCHANGED <<ray, renderVars, apiVars, tileVars, iterVars, mipVars, extVars>>

NextRay ==
    \/ \E p \in RayPrimitives(MaxNest) : RayIntersect(p)
    \/ \E p \in RayPrimitives(MaxNest) : RayIntersectP(p)

SpecRay == InitRay /\ [][NextRay]_vars

\* ============================================================== MIPMap
\* MIPMap::new is called with a resolution of 1 .. MaxRes in each axis
MaxRes == 9

\* is_power_of_2
is_power_of_2(v) == \E k \in 0 .. v : v = 2 ^ k

\* round_up_pow_2: the smallest power of two that is at least v
round_up_pow_2(v) == Pow2AtLeast(v, 1)

\* (v as f32).log2() as usize, for v >= 1
RECURSIVE Log2Floor(_)
Log2Floor(v) == IF v <= 1 THEN 0 ELSE 1 + Log2Floor(v \div 2)

\* cmp::max
CmpMax(a, b) == IF a >= b THEN a ELSE b

\* a level count taken from the smaller side
MipLevelsOfMin(r) == 1 + Log2Floor(IF r[1] <= r[2] THEN r[1] ELSE r[2])

\* n_levels = 1 + (cmp::max(resolution.x, resolution.y) as f32).log2() as usize
MipLevels(r) == 1 + Log2Floor(CmpMax(r[1], r[2]))

\* MIPMap::new is entered with res
InitMip ==
    /\ mip_pc = "resample"
    /\ mip_res \in (1 .. MaxRes) \X (1 .. MaxRes)
    /\ resolution = mip_res
    /\ pyramid = <<>>
    /\ InitIterVars
    /\ InitRayVars
    /\ InitExtVars
    /\ InitApiVars
    /\ InitTileVars
    /\ NoRender

\* mipmap.rs 46-105: the image is resampled to a power-of-two resolution
\* unless both sides are powers of two already
MipResample ==
    /\ mip_pc = "resample"
    /\ resolution' =
          IF ~is_power_of_2(mip_res[1]) \/ ~is_power_of_2(mip_res[2])
          THEN <<round_up_pow_2(mip_res[1]), round_up_pow_2(mip_res[2])>>
          ELSE mip_res
    /\ mip_pc' = "base"
    /\ UNCHANGED <<mip_res, pyramid, renderVars, apiVars, tileVars, iterVars, rayVars, extVars>>

\* mipmap.rs 125-128: level 0 is pushed
MipBase ==
    /\ mip_pc = "base"
    /\ pyramid' = <<resolution>>
    /\ mip_pc' = "levels"
    /\ UNCHANGED <<mip_res, resolution, renderVars, apiVars, tileVars, iterVars, rayVars, extVars>>

\* mipmap.rs 129-147: one turn of `for i in 1..n_levels`
MipLevel ==
    /\ mip_pc = "levels"
    /\ Len(pyramid) < MipLevels(resolution)
    /\ LET prev == pyramid[Len(pyramid)]
           s_res == CmpMax(1, prev[1] \div 2)
           t_res == CmpMax(1, prev[2] \div 2)
       IN  pyramid' = Append(pyramid, <<s_res, t_res>>)
    /\ UNCHANGED <<mip_pc, mip_res, resolution, renderVars, apiVars, tileVars,
                   iterVars, rayVars, extVars>>

\* mipmap.rs 150: the loop is over and the MIPMap is returned
MipReturn ==
    /\ mip_pc = "levels"
    /\ Len(pyramid) >= MipLevels(resolution)
    /\ mip_pc' = "done"
    /\ UNCHANGED <<mip_res, resolution, pyramid, renderVars, apiVars, tileVars,
                   iterVars, rayVars, extVars>>

NextMip ==
    \/ MipResample
    \/ MipBase
    \/ MipLevel
    \/ MipReturn

SpecMip == InitMip /\ [][NextMip]_vars

\* the idle state of every variable group but one
InitNotLi ==
    /\ InitIterVars
    /\ InitRayVars
    /\ InitMipVars
    /\ InitApiVars
    /\ InitTileVars
    /\ NoRender
    /\ InitBxdfVars
    /\ InitPsVars
    /\ InitTpVars
    /\ InitFrameVars
    /\ InitStatVars

InitNotBxdf ==
    /\ InitIterVars
    /\ InitRayVars
    /\ InitMipVars
    /\ InitApiVars
    /\ InitTileVars
    /\ NoRender
    /\ InitLiVars
    /\ InitPsVars
    /\ InitTpVars
    /\ InitFrameVars
    /\ InitStatVars

InitNotPs ==
    /\ InitIterVars
    /\ InitRayVars
    /\ InitMipVars
    /\ InitApiVars
    /\ InitTileVars
    /\ NoRender
    /\ InitLiVars
    /\ InitBxdfVars
    /\ InitTpVars
    /\ InitFrameVars
    /\ InitStatVars

InitNotTp ==
    /\ InitIterVars
    /\ InitRayVars
    /\ InitMipVars
    /\ InitApiVars
    /\ InitTileVars
    /\ NoRender
    /\ InitLiVars
    /\ InitBxdfVars
    /\ InitPsVars
    /\ InitFrameVars
    /\ InitStatVars

InitNotFrame ==
    /\ InitIterVars
    /\ InitRayVars
    /\ InitMipVars
    /\ InitApiVars
    /\ InitTileVars
    /\ NoRender
    /\ InitLiVars
    /\ InitBxdfVars
    /\ InitPsVars
    /\ InitTpVars
    /\ InitStatVars

InitNotStat ==
    /\ InitIterVars
    /\ InitRayVars
    /\ InitMipVars
    /\ InitApiVars
    /\ InitTileVars
    /\ NoRender
    /\ InitLiVars
    /\ InitBxdfVars
    /\ InitPsVars
    /\ InitTpVars
    /\ InitFrameVars

\* =============================================== direct lighting integrator
\* one top-level call li(scene, ray, sampler, 0) and the calls it makes.
\* What the scene and the BSDF return is chosen by the model; a call chain
\* is followed up to MaxLiFrames nested calls
MaxRayDepth == 3
MaxLiFrames == 5

LiFrame(depth, pc) == [depth |-> depth, pc |-> pc]

LiTop == li_stack[Len(li_stack)]

LiSetPc(pc) == [li_stack EXCEPT ![Len(li_stack)].pc = pc]

\* DirectLightingIntegrator::new(n) and the first call of li, depth 0
InitLi ==
    /\ max_ray_depth \in 0 .. MaxRayDepth
    /\ li_stack = <<LiFrame(0, "start")>>
    /\ InitNotLi

\* li: scene.intersect(ray) is None, the background radiance is returned
LiMiss ==
    /\ li_stack # <<>>
    /\ LiTop.pc = "start"
    /\ li_stack' = LiSetPc("return")
    /\ UNCHANGED <<max_ray_depth, notLi>>

\* li: the surface hit has no BSDF: return self.li(.., depth) on the
\* spawned ray
LiSkipSurface ==
    /\ li_stack # <<>>
    /\ LiTop.pc = "start"
    /\ Len(li_stack) < MaxLiFrames
    /\ li_stack' = Append(LiSetPc("return"), LiFrame(LiTop.depth, "start"))
    /\ UNCHANGED <<max_ray_depth, notLi>>

\* li: the surface hit has a BSDF: emitted and direct light are added,
\* and the specular helpers are called if depth + 1 < max_ray_depth
LiShade ==
    /\ li_stack # <<>>
    /\ LiTop.pc = "start"
    /\ li_stack' = LiSetPc(IF LiTop.depth + 1 < max_ray_depth
                           THEN "reflect" ELSE "return")
    /\ UNCHANGED <<max_ray_depth, notLi>>

\* one specular helper called by li at pc, continuing at next: it calls
\* li with depth + 1 when the BSDF sample is usable, and not otherwise
LiSpecular(pc, next) ==
    /\ li_stack # <<>>
    /\ LiTop.pc = pc
    /\ \/ li_stack' = LiSetPc(next)
       \/ /\ Len(li_stack) < MaxLiFrames
          /\ li_stack' = Append(LiSetPc(next), LiFrame(LiTop.depth + 1, "start"))
    /\ UNCHANGED <<max_ray_depth, notLi>>

LiSpecularReflection == LiSpecular("reflect", "transmit")

LiSpecularTransmission == LiSpecular("transmit", "return")

\* li returns to its caller
LiReturn ==
    /\ li_stack # <<>>
    /\ LiTop.pc = "return"
    /\ li_stack' = SubSeq(li_stack, 1, Len(li_stack) - 1)
    /\ UNCHANGED <<max_ray_depth, notLi>>

NextLi ==
    \/ LiMiss
    \/ LiSkipSurface
    \/ LiShade
    \/ LiSpecularReflection
    \/ LiSpecularTransmission
    \/ LiReturn

SpecLi == InitLi /\ [][NextLi]_vars

\* ============================================================ specular lobes
\* sample_f of the three specular BxDFs.  A BxDFType is the set of its
\* flags.  Probabilities are counted in units of 1 / FrUnits: the Fresnel
\* reflectance fr is 0 .. FrUnits, the sample u[0] is 0 .. FrUnits - 1
\* (u[0] < 1), a pdf of 1.0 is FrUnits.  refracted says whether refract()
\* returned Some (no total internal reflection)
FrUnits == 4
MaxSamples == 3

BSDF_REFLECTION == "Reflection"
BSDF_TRANSMISSION == "Transmission"
BSDF_SPECULAR == "Specular"

Sampled(pdf, type) == [pdf |-> pdf, type |-> type]

\* SpecularReflection::sample_f
SpecularReflection_sample_f == Sampled(FrUnits, {})

\* SpecularTransmission::sample_f
SpecularTransmission_sample_f(refracted) ==
    IF refracted THEN Sampled(FrUnits, {BSDF_SPECULAR, BSDF_TRANSMISSION})
    ELSE Sampled(0, {})

\* FresnelSpecular::sample_f
FresnelSpecular_sample_f(fr, u, refracted) ==
    IF u < fr THEN Sampled(fr, {BSDF_SPECULAR, BSDF_REFLECTION})
    ELSE IF refracted
         THEN Sampled(FrUnits - fr, {BSDF_SPECULAR, BSDF_TRANSMISSION})
         ELSE Sampled(0, {})

\* BxDF::get_type of each lobe
get_type(lobe) ==
    CASE lobe = "SpecularReflection" -> {BSDF_SPECULAR, BSDF_REFLECTION}
      [] lobe = "SpecularTransmission" -> {BSDF_SPECULAR, BSDF_TRANSMISSION}
      [] lobe = "FresnelSpecular" ->
            {BSDF_SPECULAR, BSDF_REFLECTION, BSDF_TRANSMISSION}

\* a new lobe, not yet sampled
InitBxdf ==
    /\ InitBxdfVars
    /\ InitNotBxdf

\* one call lobe.sample_f(wo, u) returning r
BxdfSample(lobe, fr, u, refracted, r) ==
    /\ bxdf_calls < MaxSamples
    /\ bxdf_calls' = bxdf_calls + 1
    /\ bxdf_last' = [lobe |-> lobe, fr |-> fr, u |-> u, refracted |-> refracted,
                     pdf |-> r.pdf, type |-> r.type]
    /\ UNCHANGED notBxdf

SampleSpecularReflection ==
    BxdfSample("SpecularReflection", 0, 0, FALSE, SpecularReflection_sample_f)

SampleSpecularTransmission ==
    \E refracted \in BOOLEAN :
        BxdfSample("SpecularTransmission", 0, 0, refracted,
                   SpecularTransmission_sample_f(refracted))

SampleFresnelSpecular ==
    \E fr \in 0 .. FrUnits, u \in 0 .. FrUnits - 1, refracted \in BOOLEAN :
        BxdfSample("FresnelSpecular", fr, u, refracted,
                   FresnelSpecular_sample_f(fr, u, refracted))

NextBxdf ==
    \/ SampleSpecularReflection
    \/ SampleSpecularTransmission
    \/ SampleFresnelSpecular

SpecBxdf == InitBxdf /\ [][NextBxdf]_vars

\* ================================================================= ParamSet
\* a ParamSet built by init from a list of at most MaxEntries entries, then
\* queried by find_one_*.  A number array of length n holds n copies of n,
\* so its first value tells the arrays apart
MaxEntries == 2
MaxArrayLen == 3
MaxLookups == 1

ParamNames == {"a", "b"}

\* enum Array: the variant, and the vector it holds
NumArray(a) == [kind |-> "num", nums |-> a, strs |-> <<>>]
StrArray(a) == [kind |-> "str", nums |-> <<>>, strs |-> a]

\* Array::as_num_array
as_num_array(arr) == IF arr.kind = "num" THEN arr.nums ELSE <<>>

\* Array::as_str_array
as_str_array(arr) == IF arr.kind = "str" THEN arr.strs ELSE <<>>

ParamListEntry(t, name, values) ==
    [param_type |-> t, param_name |-> name, values |-> values]

ParamSetItem(name, values) ==
    [name |-> name, values |-> values, looked_up |-> FALSE]

\* .chunks(3).filter(|s| s.len() == 3)
Chunks3(a) ==
    [i \in 1 .. (Len(a) \div 3) |-> <<a[3 * i - 2], a[3 * i - 1], a[3 * i]>>]

\* one iteration of the loop of ParamSet::init
ParamSetAdd(ps, entry) ==
    LET name == entry.param_name
    IN  CASE entry.param_type = "Bool" ->
               [ps EXCEPT !.bools = Append(@, ParamSetItem(name,
                   [i \in 1 .. Len(as_str_array(entry.values)) |->
                       as_str_array(entry.values)[i] = "true"]))]
          [] entry.param_type = "Float" ->
               [ps EXCEPT !.floats =
                   Append(@, ParamSetItem(name, as_num_array(entry.values)))]
          [] entry.param_type = "String" ->
               [ps EXCEPT !.strings =
                   Append(@, ParamSetItem(name, as_str_array(entry.values)))]
          [] entry.param_type = "Rgb" ->
               [ps EXCEPT !.spectra =
                   Append(@, ParamSetItem(name,
                                          Chunks3(as_num_array(entry.values))))]
          [] OTHER -> ps

\* ParamSet::init on a default ParamSet
RECURSIVE ParamSetInitFrom(_, _)
ParamSetInitFrom(ps, entries) ==
    IF entries = <<>> THEN ps
    ELSE ParamSetInitFrom(ParamSetAdd(ps, Head(entries)), Tail(entries))

ParamSetInit(entries) == ParamSetInitFrom(DefaultParamSet, entries)

\* self.$y.iter_mut().find(|e| e.name == name): the index, or 0
FindItem(items, name) ==
    LET found == {i \in 1 .. Len(items) : items[i].name = name}
    IN  IF found = {} THEN 0
        ELSE CHOOSE i \in found : \A j \in found : i <= j

\* macro find_one: values[0] is out of bounds on an item with no value
find_one(items, name, d) ==
    LET i == FindItem(items, name)
    IN  IF i = 0 THEN [items |-> items, res |-> "Ok", value |-> d]
        ELSE IF items[i].values = <<>>
        THEN [items |-> [items EXCEPT ![i].looked_up = TRUE],
              res |-> "Panic", value |-> d]
        ELSE [items |-> [items EXCEPT ![i].looked_up = TRUE], res |-> "Ok",
              value |-> items[i].values[1]]

\* the arrays an entry may carry
PsArrays ==
    {NumArray([i \in 1 .. n |-> n]) : n \in 0 .. MaxArrayLen}
        \cup {StrArray(<<"x">>)}

PsEntries ==
    {ParamListEntry(t, n, a) : t \in {"Float", "Rgb"}, n \in ParamNames,
                               a \in PsArrays}

PsEntryLists == UNION {[1 .. k -> PsEntries] : k \in 0 .. MaxEntries}

\* ParamSet::default() followed by init(entries)
InitParams ==
    /\ \E entries \in PsEntryLists : paramset = ParamSetInit(entries)
    /\ ps_last = [op |-> "none", name |-> "", res |-> "Ok", value |-> <<>>]
    /\ ps_lookups = 0
    /\ InitNotPs

\* the numbers of a value returned by find_one_*: one for a float, three
\* for a spectrum
PsNumbers(op, v) == IF op = "find_one_float" THEN <<v>> ELSE v

\* one call find_one_*(name, d) on the vector field
PsFindOne(op, field, name, d) ==
    LET r == find_one(paramset[field], name, d)
    IN  /\ ps_lookups < MaxLookups
        /\ ps_last.res # "Panic"
        /\ ps_lookups' = ps_lookups + 1
        /\ paramset' = [paramset EXCEPT ![field] = r.items]
        /\ ps_last' = [op |-> op, name |-> name, res |-> r.res,
                       value |-> IF r.res = "Ok" THEN PsNumbers(op, r.value)
                                 ELSE <<>>]
        /\ UNCHANGED notPs

FindOneFloat == \E n \in ParamNames : PsFindOne("find_one_float", "floats", n, 0)

FindOneSpectrum ==
    \E n \in ParamNames :
        PsFindOne("find_one_spectrum", "spectra", n, <<0, 0, 0>>)

NextParams ==
    \/ FindOneFloat
    \/ FindOneSpectrum

SpecParams == InitParams /\ [][NextParams]_vars

\* ============================================================ TextureParams
\* a TextureParams over two ParamSets, each built by init from at most one
\* entry, and texture tables that may hold the texture "tex1".  An entry
\* carries one value numbered 1 .. MaxValue, or an empty array (0)
MaxValue == 2
MaxTpLookups == 1

TpString(v) == IF v = 1 THEN "s1" ELSE IF v = 2 THEN "s2" ELSE "s3"

\* the array of an entry of type t carrying value v
TpArray(t, v) ==
    CASE v = 0 -> IF t \in {"Float", "Rgb"} THEN NumArray(<<>>) ELSE StrArray(<<>>)
      [] v > 0 /\ t = "Bool" -> StrArray(<<IF v = 1 THEN "true" ELSE "false">>)
      [] v > 0 /\ t = "Float" -> NumArray(<<v>>)
      [] v > 0 /\ t = "String" -> StrArray(<<TpString(v)>>)
      [] v > 0 /\ t = "Rgb" -> NumArray(<<v, v, v>>)
      [] v > 0 /\ t = "Texture" -> StrArray(<<"tex1">>)

TpEntryLists ==
    {<<>>} \cup
    {<<ParamListEntry(t, n, TpArray(t, v))>> :
        t \in {"Bool", "Float", "String", "Rgb", "Texture"},
        n \in ParamNames, v \in 0 .. MaxValue}

\* TextureParams::new(gp, mp, ft, st)
InitTexParams ==
    /\ \E entries \in TpEntryLists : geom_params = ParamSetInit(entries)
    /\ \E entries \in TpEntryLists : material_params = ParamSetInit(entries)
    /\ float_textures \in SUBSET {"tex1"}
    /\ spectrum_textures \in SUBSET {"tex1"}
    /\ tp_last = NoLookup
    /\ tp_lookups = 0
    /\ InitNotTp

TpResult(g, m, res, value, tex) ==
    [geom |-> g, mat |-> m, res |-> res, value |-> value, tex |-> tex]

\* a lookup that asks the geometry parameters first and lets the material
\* parameters override them
GeometryThenMaterial(g, m, field, n, d) ==
    LET r1 == find_one(g[field], n, d)
        g1 == [g EXCEPT ![field] = r1.items]
    IN  IF r1.res = "Panic" THEN TpResult(g1, m, "Panic", d, "")
        ELSE LET r2 == find_one(m[field], n, r1.value)
             IN  TpResult(g1, [m EXCEPT ![field] = r2.items], r2.res,
                          r2.value, "")

\* let d = material_params.find_one_T(n, d); geom_params.find_one_T(n, d)
MaterialThenGeometry(g, m, field, n, d) ==
    LET r1 == find_one(m[field], n, d)
        m1 == [m EXCEPT ![field] = r1.items]
    IN  IF r1.res = "Panic" THEN TpResult(g, m1, "Panic", d, "")
        ELSE LET r2 == find_one(g[field], n, r1.value)
             IN  TpResult([g EXCEPT ![field] = r2.items], m1, r2.res,
                          r2.value, "")

\* TextureParams::find_string
tp_find_string(g, m, n) == MaterialThenGeometry(g, m, "strings", n, "")

\* TextureParams::find_bool
tp_find_bool(g, m, n, d) == MaterialThenGeometry(g, m, "bools", n, d)

\* get_float_texture / get_spectrum_texture: the texture named by the
\* parameter if the table has it, or else a constant texture
get_texture(g, m, table, field, n, d) ==
    LET r1 == find_one(g.textures, n, "")
        g1 == [g EXCEPT !.textures = r1.items]
    IN  IF r1.res = "Panic" THEN TpResult(g1, m, "Panic", d, "")
        ELSE LET r2 == IF r1.value = "" THEN find_one(m.textures, n, "")
                       ELSE [items |-> m.textures, res |-> "Ok",
                             value |-> r1.value]
                 m1 == [m EXCEPT !.textures = r2.items]
             IN  IF r2.res = "Panic" THEN TpResult(g1, m1, "Panic", d, "")
                 ELSE IF r2.value # "" /\ r2.value \in table
                 THEN TpResult(g1, m1, "Ok", d, r2.value)
                 ELSE MaterialThenGeometry(g1, m1, field, n, d)

\* TextureParams::get_float_texture
get_float_texture(g, m, table, n, d) == get_texture(g, m, table, "floats", n, d)

\* TextureParams::get_spectrum_texture
get_spectrum_texture(g, m, table, n, d) ==
    get_texture(g, m, table, "spectra", n, d)

\* one lookup on the TextureParams: r is what it returns, kind says which
\* field of tp_last the value goes to
TpLookup(op, d, kind, r) ==
    /\ tp_lookups < MaxTpLookups
    /\ tp_last.res # "Panic"
    /\ tp_lookups' = tp_lookups + 1
    /\ geom_params' = r.geom
    /\ material_params' = r.mat
    /\ tp_last' = [op |-> op, d |-> d, res |-> r.res,
                   str |-> IF kind = "str" /\ r.res = "Ok" THEN r.value ELSE "",
                   bool |-> IF kind = "bool" /\ r.res = "Ok" THEN r.value
                            ELSE FALSE,
                   nums |-> IF r.res # "Ok" \/ r.tex # "" THEN <<>>
                            ELSE IF kind = "float" THEN <<r.value>>
                            ELSE IF kind = "spectrum" THEN r.value
                            ELSE <<>>,
                   tex |-> r.tex]
    /\ UNCHANGED <<float_textures, spectrum_textures, notTp>>

TpFindString ==
    TpLookup("find_string", FALSE, "str",
             tp_find_string(geom_params, material_params, "a"))

TpFindBool ==
    \E d \in BOOLEAN :
        TpLookup("find_bool", d, "bool",
                 tp_find_bool(geom_params, material_params, "a", d))

TpGetFloatTexture ==
    TpLookup("get_float_texture", FALSE, "float",
             get_float_texture(geom_params, material_params, float_textures,
                               "a", 0))

TpGetSpectrumTexture ==
    TpLookup("get_spectrum_texture", FALSE, "spectrum",
             get_spectrum_texture(geom_params, material_params,
                                  spectrum_textures, "a", <<0, 0, 0>>))

NextTexParams ==
    \/ TpFindString
    \/ TpFindBool
    \/ TpGetFloatTexture
    \/ TpGetSpectrumTexture

SpecTexParams == InitTexParams /\ [][NextTexParams]_vars

\* ============================================================ shading frame
\* BSDF::world_to_local and BSDF::local_to_world on integer vectors with
\* coordinates in -MaxCoord .. MaxCoord.  The frames are the orthonormal
\* frames with integer coordinates: ss and ns are orthogonal unit axes and
\* ts = ns x ss, as BSDF::new computes them
MaxCoord == 1

Dot(a, b) == a[1] * b[1] + a[2] * b[2] + a[3] * b[3]

Cross(a, b) ==
    <<a[2] * b[3] - a[3] * b[2],
      a[3] * b[1] - a[1] * b[3],
      a[1] * b[2] - a[2] * b[1]>>

UnitAxes ==
    {<<1, 0, 0>>, <<-1, 0, 0>>, <<0, 1, 0>>, <<0, -1, 0>>, <<0, 0, 1>>,
     <<0, 0, -1>>}

\* BSDF::new: the frame from the shading normal n and dpdu (unit length)
BSDFNew(n, dpdu) == [ss |-> dpdu, ts |-> Cross(n, dpdu), ns |-> n]

\* BSDF::world_to_local
world_to_local(b, v) == <<Dot(v, b.ss), Dot(v, b.ts), Dot(v, b.ns)>>

\* BSDF::local_to_world
local_to_world(b, v) ==
    <<b.ss[1] * v[1] + b.ts[1] * v[2] + b.ns[1] * v[3],
      b.ss[2] * v[1] + b.ts[2] * v[2] + b.ns[2] * v[3],
      b.ss[3] * v[3] + b.ts[3] * v[2] + b.ns[3] * v[3]>>

\* a BSDF on an orthonormal frame and a world vector
InitFrame ==
    /\ \E n \in UnitAxes, dpdu \in UnitAxes :
          /\ Dot(n, dpdu) = 0
          /\ bsdf = BSDFNew(n, dpdu)
    /\ v_world \in (-MaxCoord .. MaxCoord) \X (-MaxCoord .. MaxCoord)
                     \X (-MaxCoord .. MaxCoord)
    /\ v_local = <<0, 0, 0>>
    /\ v_back = <<0, 0, 0>>
    /\ frame_pc = "world"
    /\ InitNotFrame

\* wo = self.world_to_local(&wo_w)
FrameWorldToLocal ==
    /\ frame_pc = "world"
    /\ v_local' = world_to_local(bsdf, v_world)
    /\ frame_pc' = "local"
    /\ UNCHANGED <<bsdf, v_world, v_back, notFrame>>

\* self.local_to_world(&wi), applied to the local vector itself
FrameLocalToWorld ==
    /\ frame_pc = "local"
    /\ v_back' = local_to_world(bsdf, v_local)
    /\ frame_pc' = "back"
    /\ UNCHANGED <<bsdf, v_world, v_local, notFrame>>

NextFrame ==
    \/ FrameWorldToLocal
    \/ FrameLocalToWorld

SpecFrame == InitFrame /\ [][NextFrame]_vars

\* ========================================================== StatAccumulator
\* at most MaxReports calls of report_int_distribution on one accumulator,
\* for two names and with every argument 0 or 3, and print_stats at any
\* time.  The sums stay far below 2^64
MaxReports == 2

StatNames == {"n1", "n2"}
StatValues == {0, 3}

U64Min(a, b) == IF a <= b THEN a ELSE b
U64Max(a, b) == IF a >= b THEN a ELSE b

\* *map.entry(name).or_insert(0) += value
EntryAdd(map, name, value) ==
    MapPut(map, name, (IF MapHas(map, name) THEN map[name] ELSE 0) + value)

\* a minimum that starts from 0 for a new name
EntryMinFromZero(map, name, min) ==
    MapPut(map, name, U64Min(IF MapHas(map, name) THEN map[name] ELSE 0, min))

\* let m = map.entry(name).or_insert(min); *m = u64::min(*m, min)
EntryMin(map, name, min) ==
    MapPut(map, name, U64Min(IF MapHas(map, name) THEN map[name] ELSE min, min))

\* let m = map.entry(name).or_insert(max); *m = u64::max(*m, max)
EntryMax(map, name, max) ==
    MapPut(map, name, U64Max(IF MapHas(map, name) THEN map[name] ELSE max, max))

InitStats ==
    /\ InitStatVars
    /\ InitNotStat

\* StatAccumulator::report_int_distribution
ReportIntDistribution(name, sum, count, min, max) ==
    /\ Len(stat_reports) < MaxReports
    /\ stat_printed # "Panic"
    /\ int_distribution_sums' = EntryAdd(int_distribution_sums, name, sum)
    /\ int_distribution_counts' = EntryAdd(int_distribution_counts, name, count)
    /\ int_distribution_mins' = EntryMin(int_distribution_mins, name, min)
    /\ int_distribution_maxs' = EntryMax(int_distribution_maxs, name, max)
    /\ stat_reports' = Append(stat_reports,
                              [name |-> name, sum |-> sum, count |-> count,
                               min |-> min, max |-> max])
    /\ UNCHANGED <<stat_printed, notStat>>

Report ==
    \E name \in StatNames, sum \in StatValues, count \in StatValues,
       min \in StatValues, max \in StatValues :
        ReportIntDistribution(name, sum, count, min, max)

\* StatAccumulator::print_stats, the int distributions: every name of the
\* sums is looked up in the other three maps (min and max only when the
\* count is not 0), and a missing one is an unwrap of None
PrintStats ==
    /\ stat_printed # "Panic"
    /\ stat_printed' =
         IF \A desc \in DOMAIN int_distribution_sums :
               /\ MapHas(int_distribution_counts, desc)
               /\ int_distribution_counts[desc] # 0
                    => /\ MapHas(int_distribution_mins, desc)
                       /\ MapHas(int_distribution_maxs, desc)
         THEN "Ok" ELSE "Panic"
    /\ UNCHANGED <<int_distribution_sums, int_distribution_counts,
                   int_distribution_mins, int_distribution_maxs, stat_reports,
                   notStat>>

NextStats ==
    \/ Report
    \/ PrintStats

SpecStats == InitStats /\ [][NextStats]_vars

\* ------------------------------------------------------------ properties
AllWorkersDone == \A w \in Workers : wpc[w] = "done"

\* C1: under any interleaving of next() calls, every tile index in
\* 0..num_blocks-1 is returned to exactly one call (never twice, and every
\* index below the counter has been returned), no other index is ever
\* returned, and a call made once all tiles are handed out returns None.
C1_EachTileHandedOnce ==
    /\ [](\A c \in DOMAIN handed : c \in 0 .. num_blocks - 1)
    /\ [](\A c \in 0 .. num_blocks - 1 :
            BagCount(handed, c) = IF c < counter THEN 1 ELSE 0)
    /\ [](AllWorkersDone => \A c \in 0 .. num_blocks - 1 : BagCount(handed, c) = 1)
    /\ [][\A w \in Workers :
            (/\ wpc[w] = "next"
             /\ wpc'[w] # "next"
             /\ \A c \in 0 .. num_blocks - 1 : BagCount(handed, c) = 1)
            => (wpc'[w] = "stats" /\ handed' = handed)]_vars

C1_Witness ==
    /\ num_threads = 2
    /\ num_blocks = 2
    /\ AllWorkersDone
    /\ wstats[1] > 0
    /\ wstats[2] > 0
    /\ counter = num_blocks + num_threads

CeilDiv(a, b) == (a + b - 1) \div b

\* C2: the queue holds ceil(W/T) * ceil(H/T) tiles and, once the queue is
\* drained and every tile iterated, every pixel of the film has been produced
\* exactly once and no pixel outside the film has been produced.
C2_TilesCoverFilm ==
    /\ num_blocks = CeilDiv(dim[1], block_size) * CeilDiv(dim[2], block_size)
    /\ tile_pc = "done" =>
          covered = [p \in (0 .. dim[1] - 1) \X (0 .. dim[2] - 1) |-> 1]

\* C3: render returns only after the queue is exhausted and every worker has
\* finished; and under fair scheduling render eventually returns.
C3_RenderReturns ==
    /\ [](cpc = "done" => (counter >= num_blocks /\ AllWorkersDone))
    /\ <>(cpc = "done")

C3_Witness ==
    /\ cpc = "done"
    /\ num_threads = 2
    /\ num_blocks = 2
    /\ spp = 2
    /\ wstats[1] > 0
    /\ wstats[2] > 0

\* C4: when the image is written, every sample a worker produced has been
\* added to the film exactly once.
C4_EverySampleAddedOnce ==
    cpc = "done" => \A s \in produced : BagCount(image, s) = 1

\* the i-th sample of the run in which one worker renders every tile
SequentialSample(i) ==
    LET perPixel == SamplesPerPixel(spp)
        perTile == block_size * block_size * perPixel
        c == i \div perTile
        r == i % perTile
        pix == r \div perPixel
        start == TileStart(c, dim, block_size)
    IN  <<start[1] + (pix % block_size), start[2] + (pix \div block_size), r % perPixel>>

\* the film of the run in which one worker renders every tile
SequentialFilm ==
    [s \in {SequentialSample(i) : i \in 0 .. ExpectedSamples - 1} |-> 1]

\* C5: the film at the end of render is the same under every interleaving:
\* it equals the film of the run in which one worker renders every tile.
C5_FilmSameUnderEveryInterleaving ==
    cpc = "done" => film = SequentialFilm

\* a directive has just been issued
Issued == steps' = steps + 1

OptionsDirectives ==
    {"pixel_filter", "film", "sampler", "accelerator", "integrator", "camera",
     "world_begin"}

WorldDirectives ==
    {"attribute_begin", "attribute_end", "transform_begin", "transform_end",
     "texture", "material", "make_named_material", "named_material",
     "lightsource", "arealightsource", "shape", "reverse_orientation",
     "object_begin", "object_end", "object_instance", "world_end"}

\* C6: across any sequence of directives api_state changes only by init
\* (Uninitialized -> OptionsBlock) and by world_begin (OptionsBlock ->
\* WorldBlock); init in any other state, and world_begin in any other state,
\* return an error and leave the state unchanged; so WorldBlock is never
\* reached without passing through OptionsBlock.
C6_ApiStateTransitions ==
    [][/\ api_state' # api_state =>
            \/ /\ last'.op = "init"
               /\ api_state = "Uninitialized"
               /\ api_state' = "OptionsBlock"
            \/ /\ last'.op = "world_begin"
               /\ api_state = "OptionsBlock"
               /\ api_state' = "WorldBlock"
       /\ (Issued /\ last'.op = "init" /\ api_state # "Uninitialized") =>
            (last'.res = "Err" /\ apiCore' = apiCore)
       /\ (Issued /\ last'.op = "world_begin" /\ api_state # "OptionsBlock") =>
            (last'.res = "Err" /\ apiCore' = apiCore)
       /\ api_state' = "WorldBlock" => api_state \in {"OptionsBlock", "WorldBlock"}
      ]_vars

\* init was rejected in WorldBlock, which was reached by init and world_begin
C6_Witness ==
    /\ steps = 3
    /\ api_state = "WorldBlock"
    /\ last.op = "init"
    /\ last.res = "Err"

\* C7: after WorldEnd completes the API state is Uninitialized again: a
\* following init succeeds, and a following world or options directive
\* issued without a new init is rejected.
C7_UninitializedAfterWorldEnd ==
    /\ [](last.op = "world_end" /\ last.res = "Ok" => api_state = "Uninitialized")
    /\ [][(last.op = "world_end" /\ last.res = "Ok" /\ Issued /\ last'.op = "init")
            => last'.res = "Ok"]_vars
    /\ [][(/\ last.op = "world_end" /\ last.res = "Ok" /\ Issued
            /\ last'.op \in OptionsDirectives \cup WorldDirectives)
            => last'.res = "Err"]_vars

\* C8: in WorldBlock every options directive returns an error and leaves
\* the render options, the current transform and the api state unchanged.
C8_OptionsRejectedInWorldBlock ==
    [][(Issued /\ api_state = "WorldBlock" /\ last'.op \in OptionsDirectives) =>
            /\ last'.res = "Err"
            /\ render_options' = render_options
            /\ cur_transform' = cur_transform
            /\ api_state' = api_state
      ]_vars

\* Camera was issued in WorldBlock, after a transform had been set
C8_Witness ==
    /\ api_state = "WorldBlock"
    /\ last.op = "camera"
    /\ last.res = "Err"
    /\ cur_transform # 0

\* C9: outside WorldBlock every world directive returns an error and leaves
\* the graphics state, the render options and the api state unchanged.
C9_WorldRejectedOutsideWorldBlock ==
    [][(Issued /\ api_state # "WorldBlock" /\ last'.op \in WorldDirectives) =>
            /\ last'.res = "Err"
            /\ graphics_state' = graphics_state
            /\ render_options' = render_options
            /\ api_state' = api_state
      ]_vars

\* C10: an AttributeEnd issued in WorldBlock with an empty saved
\* graphics-state stack, and a TransformEnd issued with an empty
\* saved-transform stack, return Ok and leave the graphics state, the current
\* transform and both stacks unchanged.
C10_UnmatchedEndIgnored ==
    [][(/\ Issued
        /\ api_state = "WorldBlock"
        /\ \/ last'.op = "attribute_end" /\ pushed_graphics_states = <<>>
           \/ last'.op = "transform_end" /\ pushed_transforms = <<>>) =>
            /\ last'.res = "Ok"
            /\ graphics_state' = graphics_state
            /\ cur_transform' = cur_transform
            /\ pushed_graphics_states' = pushed_graphics_states
            /\ pushed_transforms' = pushed_transforms
      ]_vars

\* init, world_begin, then an AttributeEnd with nothing to match
C10_Witness ==
    /\ steps = 3
    /\ api_state = "WorldBlock"
    /\ last.op = "attribute_end"
    /\ last.res = "Ok"
    /\ pushed_graphics_states = <<>>
    /\ pushed_transforms = <<>>

SceneObject == "o1"

\* C12: for any sequence of ObjectInstance calls naming the same object that
\* holds two or more primitives, the aggregate over those primitives is built
\* once, at the first call, and every instance's TransformedPrimitive wraps
\* that shared aggregate; each successful call on a non-empty object adds
\* exactly one primitive to the scene, and a call on an empty object adds
\* none.
C12_InstanceAggregateBuiltOnce ==
    [][(Issued /\ last'.op = "object_instance" /\ last'.res = "Ok") =>
         LET inst == render_options.instances[SceneObject]
             inst2 == render_options'.instances[SceneObject]
             prims == render_options.primitives
             prims2 == render_options'.primitives
         IN  /\ Len(inst) = 0 => render_options' = render_options
             /\ Len(inst) >= 1 =>
                  /\ Len(prims2) = Len(prims) + 1
                  /\ SubSeq(prims2, 1, Len(prims)) = prims
                  /\ prims2[Len(prims2)].kind = "Transformed"
                  /\ prims2[Len(prims2)].inner = <<inst2[1]>>
                  /\ prims2[Len(prims2)].primitive_to_world = cur_transform
             /\ Len(inst) >= 2 =>
                  /\ Len(inst2) = 1
                  /\ inst2[1].kind = "BVH"
                  /\ inst2[1].inner = inst
             /\ Len(inst) = 1 => inst2 = inst
      ]_vars

\* an object of two triangles was instanced twice: the scene holds two
\* TransformedPrimitives that wrap the aggregate the object now holds
C12_Witness ==
    /\ last.op = "object_instance"
    /\ last.res = "Ok"
    /\ Len(render_options.primitives) = 2
    /\ MapHas(render_options.instances, SceneObject)
    /\ Len(render_options.instances[SceneObject]) = 1
    /\ render_options.instances[SceneObject][1].kind = "BVH"
    /\ Len(render_options.instances[SceneObject][1].inner) = 2
    /\ \A i \in 1 .. 2 :
          /\ render_options.primitives[i].kind = "Transformed"
          /\ render_options.primitives[i].inner = render_options.instances[SceneObject]

\* the material names make_material recognises
KnownMaterials ==
    {"matte", "plastic", "glass", "mirror", "metal", "substrate", "translucent",
     "uber", "disney"}

\* the current material of gs is an unknown name, or a named material that
\* was never defined
BadMaterial(gs) ==
    IF gs.current_named_material # ""
    THEN ~MapHas(gs.named_material, gs.current_named_material)
    ELSE gs.material \notin KnownMaterials

\* C13: creating the material for a Shape never fails on a bad name: with an
\* unknown material name, or a current NamedMaterial that was never defined,
\* the Shape directive succeeds and adds its primitives, with a matte
\* material.
C13_BadMaterialFallsBackToMatte ==
    [][(/\ Issued
        /\ last'.op = "shape"
        /\ api_state = "WorldBlock"
        /\ BadMaterial(graphics_state)) =>
         LET old == IF render_options.current_instance = None
                    THEN render_options.primitives
                    ELSE render_options.instances[render_options.current_instance[1]]
             new == IF render_options.current_instance = None
                    THEN render_options'.primitives
                    ELSE render_options'.instances[render_options.current_instance[1]]
         IN  /\ last'.res = "Ok"
             /\ Len(new) > Len(old)
             /\ SubSeq(new, 1, Len(old)) = old
             /\ \A i \in Len(old) + 1 .. Len(new) :
                   /\ new[i].kind = "Geometric"
                   /\ new[i].material = "matte"
      ]_vars

\* a mesh of two triangles was added while the material name was unknown
C13_Witness ==
    /\ last.op = "shape"
    /\ last.res = "Ok"
    /\ graphics_state.material = "bogus"
    /\ graphics_state.current_named_material = ""
    /\ Len(render_options.primitives) = 2
    /\ \A i \in 1 .. 2 : render_options.primitives[i].material = "matte"

\* everything WorldEnd needs, apart from the pixel filter, can be made
ValidApartFromFilter(ro) ==
    /\ make_film(ro)
    /\ ro.camera_name = "perspective"
    /\ make_integrator(ro)
    /\ make_sampler(ro)
    /\ ~make_accelerator_panics(ro.accelerator_name)

\* C14: when the PixelFilter name is not one of box, triangle, gaussian,
\* mitchell, WorldEnd substitutes the box filter and goes on to render; it
\* does not return an error for the unknown filter name.
C14_UnknownFilterDefaultsToBox ==
    [][(/\ Issued
        /\ last'.op = "world_end"
        /\ api_state = "WorldBlock"
        /\ render_options.filter_name \notin {"box", "triangle", "gaussian", "mitchell"}
        /\ ValidApartFromFilter(render_options)) =>
            last'.rendered
      ]_vars

\* C15: selecting the accelerator kdtree, or declaring a texture of class
\* mix, bilerp, dots, marble, windy, ptex or wrinkled, is recoverable: the
\* Texture directive, ObjectInstance and WorldEnd complete, and the process
\* does not panic.
C15_UnimplementedNamesDoNotPanic ==
    [][(Issued /\ last'.op \in {"texture", "object_instance", "world_end"}) =>
            last'.res # "Panic"
      ]_vars

\* C16: WorldEnd on a scene with zero primitives and zero lights aborts the
\* render (the renderer is not invoked and an error is reported); with at
\* least one primitive or one light the renderer is invoked.
C16_EmptySceneAborts ==
    [][(Issued /\ last'.op = "world_end" /\ api_state = "WorldBlock") =>
         LET empty == /\ render_options.primitives = <<>>
                      /\ render_options.lights = <<>>
         IN  /\ empty => (~last'.rendered /\ last'.res = "Err")
             /\ (~empty /\ make_filter(render_options)
                        /\ ValidApartFromFilter(render_options)) => last'.rendered
      ]_vars

\* C17: iterating a Block of side size >= 1 yields exactly area() = size *
\* size pixels, every (x, y) of the square once, in row-major order from
\* start to (start.x + size - 1, start.y + size - 1), and after the last
\* pixel next() returns None on every later call.
C17_BlockIteration ==
    LET sx == iter_block.start[1]
        sy == iter_block.start[2]
        size == iter_block.end[1] - sx
        n == Len(iter_out)
    IN  /\ BlockArea(iter_block) = size * size
        /\ n <= size * size
        /\ \A i \in 1 .. n :
              iter_out[i] = <<sx + ((i - 1) % size), sy + ((i - 1) \div size)>>
        /\ BlockAtEnd(iter_block) <=> n = size * size
        /\ iter_nones > 0 => n = size * size

\* a Block of side 3 that does not start at the origin was iterated to the
\* end and then asked twice more
C17_Witness ==
    /\ iter_block.start = <<2, 1>>
    /\ Len(iter_out) = 9
    /\ iter_out[1] = <<2, 1>>
    /\ iter_out[9] = <<4, 3>>
    /\ iter_nones = 2

\* the sum of the counters of workers 1 .. n
RECURSIVE SumWorkerStats(_)
SumWorkerStats(n) == IF n = 0 THEN 0 ELSE wstats[n] + SumWorkerStats(n - 1)

\* the workers that have sent their statistics and ended
WorkersDone == {w \in Workers : wpc[w] = "done"}

C19_ProgressWithinTiles == progress <= num_blocks

\* v is the smallest power of two that is at least u
RoundedUpToPowerOfTwo(u, v) ==
    /\ \E k \in 0 .. v : v = 2 ^ k
    /\ v >= u
    /\ v < 2 * u

\* C20: for every input resolution w, h >= 1 the constructed MIPMap has base
\* dimensions W, H equal to w, h rounded up to powers of two, has exactly
\* 1 + floor(log2(max(W, H))) levels, level i has dimensions
\* max(1, dim(i - 1) / 2) in each axis, and the last level is 1 x 1.
C20_MipMapPyramid ==
    mip_pc = "done" =>
        LET W == resolution[1]
            H == resolution[2]
            M == IF W >= H THEN W ELSE H
            L == Len(pyramid)
        IN  /\ RoundedUpToPowerOfTwo(mip_res[1], W)
            /\ RoundedUpToPowerOfTwo(mip_res[2], H)
            /\ L >= 1
            /\ 2 ^ (L - 1) <= M
            /\ M < 2 ^ L
            /\ pyramid[1] = <<W, H>>
            /\ \A i \in 2 .. L :
                  /\ pyramid[i][1] = (IF pyramid[i - 1][1] \div 2 >= 1
                                      THEN pyramid[i - 1][1] \div 2 ELSE 1)
                  /\ pyramid[i][2] = (IF pyramid[i - 1][2] \div 2 >= 1
                                      THEN pyramid[i - 1][2] \div 2 ELSE 1)
            /\ pyramid[L] = <<1, 1>>

\* a 5 x 2 image became an 8 x 2 base with four levels
C20_Witness ==
    /\ mip_pc = "done"
    /\ mip_res = <<5, 2>>
    /\ pyramid = <<(<<8, 2>>), (<<4, 1>>), (<<2, 1>>), (<<1, 1>>)>>


\* C21: an AttributeEnd issued in the world block while an AttributeBegin
\* is outstanding, and that returns, restores the graphics state and the
\* current transform that were in effect at the most recent unmatched
\* AttributeBegin, whatever TransformBegin/TransformEnd and transform
\* directives were issued in between
C21_AttributeEndRestores ==
    [][(/\ Issued
        /\ last'.op = "attribute_end"
        /\ last'.res = "Ok"
        /\ api_state = "WorldBlock"
        /\ pushed_graphics_states # <<>>)
       => /\ graphics_state' =
               pushed_graphics_states[Len(pushed_graphics_states)]
          /\ cur_transform' = attr_transforms[Len(attr_transforms)]]_vars

\* C22: the saved-transform stack is never shorter than the saved
\* graphics-state stack, and no directive panics in restore_transform
C22_TransformStackCoversAttributeStack ==
    /\ Len(pushed_transforms) >= Len(pushed_graphics_states)
    /\ ~(last.op \in {"attribute_end", "object_end"} /\ last.res = "Panic")


\* C23: a directive that returns an error leaves the whole API state as it
\* was: api state, render options (instance table included), current
\* transform, named coordinate systems, graphics state and both stacks
C23_ErrorLeavesStateUnchanged ==
    [][(Issued /\ last'.res = "Err") => UNCHANGED apiCore]_vars


\* the configuration names are the ones RenderOptions::default() sets
AllDefaultNames ==
    \A f \in {"film_name", "filter_name", "sampler_name", "accelerator_name",
               "integrator_name", "camera_name"} :
        render_options[f] = DefaultRenderOptions[f]

\* C24: with every configuration name left at its default, a WorldEnd in
\* the world block builds the camera, the integrator, the sampler and the
\* scene and reaches the renderer: no default name is rejected
C24_DefaultsAreRecognized ==
    [][(/\ Issued
        /\ last'.op = "world_end"
        /\ api_state = "WorldBlock"
        /\ AllDefaultNames)
       => last'.rendered]_vars


\* C25: in every call chain of li each recursive call has a strictly
\* larger depth than its caller, is made only by a caller with
\* depth + 1 < max_ray_depth, and so the number of nested recursive calls
\* never exceeds max_ray_depth
C25_LiRecursionBounded ==
    /\ \A i \in 2 .. Len(li_stack) :
          /\ li_stack[i].depth > li_stack[i - 1].depth
          /\ li_stack[i - 1].depth + 1 < max_ray_depth
    /\ Len(li_stack) - 1 <= max_ray_depth


\* C26: a specular lobe that returns a sample with non-zero pdf reports a
\* sampled type that contains the Specular flag and is a non-empty subset
\* of the lobe's own get_type() flags
C26_SpecularSampleReportsSpecular ==
    (bxdf_last.lobe # "none" /\ bxdf_last.pdf # 0)
    => /\ BSDF_SPECULAR \in bxdf_last.type
       /\ bxdf_last.type # {}
       /\ bxdf_last.type \subseteq get_type(bxdf_last.lobe)


\* the vector a find_one_* call searches, and the default it was given
PsField(op) == IF op = "find_one_float" THEN "floats" ELSE "spectra"

PsDefault(op) == IF op = "find_one_float" THEN 0 ELSE <<0, 0, 0>>

\* C27: on a ParamSet built by init from any list of entries, find_one_T
\* never fails; it returns the first value of the first stored entry of
\* type T with that name and marks that entry as looked up, and returns
\* the default when there is none
C27_FindOneNeverFails ==
    [][ps_lookups' = ps_lookups + 1
       => LET items == paramset[PsField(ps_last'.op)]
              i == FindItem(items, ps_last'.name)
          IN  /\ ps_last'.res = "Ok"
              /\ IF i = 0
                 THEN /\ ps_last'.value =
                           PsNumbers(ps_last'.op, PsDefault(ps_last'.op))
                      /\ paramset' = paramset
                 ELSE /\ ps_last'.value =
                           PsNumbers(ps_last'.op, items[i].values[1])
                      /\ paramset'[PsField(ps_last'.op)][i].looked_up]_vars


\* the value of parameter "a" in the vector field by precedence: the
\* geometry parameters, or else the material parameters, or else d
TpExpected(field, d) ==
    LET gi == FindItem(geom_params[field], "a")
        mi == FindItem(material_params[field], "a")
    IN  IF gi # 0 THEN geom_params[field][gi].values[1]
        ELSE IF mi # 0 THEN material_params[field][mi].values[1]
        ELSE d

\* what a texture getter returns: the named texture if the table has it,
\* or else a constant texture of the value chosen by precedence
TpExpectedTexture(table, constant, returned) ==
    LET name == TpExpected("textures", "")
    IN  IF name # "" /\ name \in table
        THEN returned.tex = name
        ELSE returned.tex = "" /\ returned.nums = constant

C29_LocalToWorldInvertsWorldToLocal ==
    frame_pc = "back" => v_back = v_world


\* the reports made for one name, and the total of one of their fields
ReportsOf(name) ==
    {i \in 1 .. Len(stat_reports) : stat_reports[i].name = name}

RECURSIVE TotalOf(_, _)
TotalOf(is, field) ==
    IF is = {} THEN 0
    ELSE LET i == CHOOSE j \in is : TRUE
         IN  stat_reports[i][field] + TotalOf(is \ {i}, field)

\* C30: after any sequence of report_int_distribution calls the four maps
\* have the same keys, the names reported, so print_stats never fails a
\* lookup; and for each name the stored sum and count are the totals of
\* the reported sums and counts and the stored min and max are the least
\* reported min and the greatest reported max, whatever the order
C30_IntDistributionMapsAgree ==
    /\ DOMAIN int_distribution_counts = DOMAIN int_distribution_sums
    /\ DOMAIN int_distribution_mins = DOMAIN int_distribution_sums
    /\ DOMAIN int_distribution_maxs = DOMAIN int_distribution_sums
    /\ DOMAIN int_distribution_sums =
          {stat_reports[i].name : i \in 1 .. Len(stat_reports)}
    /\ stat_printed # "Panic"
    /\ \A name \in DOMAIN int_distribution_sums :
          /\ int_distribution_sums[name] = TotalOf(ReportsOf(name), "sum")
          /\ int_distribution_counts[name] = TotalOf(ReportsOf(name), "count")
          /\ \A i \in ReportsOf(name) :
                /\ int_distribution_mins[name] <= stat_reports[i].min
                /\ int_distribution_maxs[name] >= stat_reports[i].max
          /\ \E i \in ReportsOf(name) :
                int_distribution_mins[name] = stat_reports[i].min
          /\ \E i \in ReportsOf(name) :
                int_distribution_maxs[name] = stat_reports[i].max

\* two reports for one name, the second with the smaller max and the
\* larger min and count, have been made and printed
C30_Witness ==
    /\ Len(stat_reports) = 2
    /\ stat_reports[1].name = stat_reports[2].name
    /\ stat_reports[1].min < stat_reports[2].min
    /\ stat_reports[1].max > stat_reports[2].max
    /\ stat_reports[2].count # 0
    /\ stat_printed = "Ok"

====
